---- MODULE Spec2Model ----
(***************************************************************************)
(* A model of the drift analysis engine's persistence and bridge layers.   *)
(*                                                                         *)
(*   SpecWriter  - drift-storage/src/batch/writer.rs: BatchWriter, the     *)
(*                 bounded command channel and the writer thread           *)
(*                                                                         *)
(* Each specification leaves the variables of the other components         *)
(* unchanged.                                                              *)
(***************************************************************************)
EXTENDS Integers, Sequences, FiniteSets, TLC

(***************************************************************************)
(* Bounds of the model.                                                    *)
(***************************************************************************)
\* data commands sent through BatchWriter::send, over all senders
MaxData == 3
\* Flush / Shutdown commands passed to BatchWriter::send
MaxCtl == 1
\* granularity of the clock, in milliseconds
TickMs == 50
\* writer.rs:17 sets BATCH_SIZE to 500; the model scales it down so that a
\* size-triggered drain is reachable
BATCH_SIZE == 3
\* initialize calls made
MaxInitCalls == 3
\* WAL checkpoints counted
MaxCheckpoints == 2
\* rows of one table command
MaxRows == 2
\* table commands committed before the one that is committed twice
MaxPrior == 1
\* directory entries of the walked tree
NEntries == 3
\* scans requested through the bridge
MaxScans == 2
\* files of the scanned tree
NScanFiles == 2
\* distinct file contents handed to ParserManager::parse
MaxContent == 1
\* the content fingerprint is a 64-bit value; the model scales the space down
FingerprintSpace == 2
\* cache.rs:45 sets the default capacity to 10,000; the model scales it down
\* so that the cache can fill
CACHE_CAPACITY == 1
\* parse calls made on one ParserManager
MaxParses == 4
\* functions of the first file of a build input
MaxFunctions == 2
\* call sites of the first file of a build input
MaxCallSites == 2
\* full_build / update calls made on one IncrementalCallGraph
MaxGraphCalls == 3
\* nodes of a traversed graph
NBfsNodes == 3
\* edges of a traversed graph
MaxBfsEdges == 4
\* Confidence scorer: files in scope, largest location count, and the number
\* of steps of the grid of decay values (1/DecaySteps .. 1).
TotalFiles == 4
MaxLocations == 3
DecaySteps == 4
\* Convention discovery: largest location count of a pattern and the number
\* of files of the project.
MaxOccurrences == 5
\* significant binary digits of an f64
MantissaBits == 53
\* binary digits a step of the long division of two counts yields
ChunkBits == 15
SpreadFiles == 5
\* promote_batch calls made on one set of conventions
MaxPromoteCalls == 2
\* largest sample size handed to select_primary_method
MaxSampleSize == 120
\* call sites of the file handed to the taint analysis
MaxTaintCalls == 3
\* matches handed to one run of the aggregation pipeline
MaxMatches == 2

(***************************************************************************)
(* Program constants.                                                      *)
(***************************************************************************)
CHANNEL_BOUND == 1024
\* milliseconds
FLUSH_TIMEOUT == 100

VARIABLES
    \* ---- batch writer (drift-storage batch/writer.rs)
    chan,          \* the bounded channel: commands sent and not yet received
    buffer,        \* writer_loop's `buffer`
    db,            \* ids of the committed data commands, in execution order
    stats,         \* writer_loop's `stats` (the flush counter)
    pcW,           \* writer thread: "recv" (in the loop) or "done" (returned)
    writerResult,  \* what writer_loop returned: "none", "Ok" or "Err"
    exitOn,        \* the recv outcome the thread was handling when it returned
    pcS,           \* owner of the BatchWriter: "idle", "joining", "returned", "dropped"
    shutdownResult,\* what BatchWriter::shutdown returned: "none", "Ok" or "Err"
    sent,          \* per sender, the number of data commands sent
    ctlSent,       \* number of Flush / Shutdown commands sent through send()
    acked,         \* ids of the data commands for which send returned Ok
    refused,       \* ids of the data commands for which send returned Err
    arrived,       \* ids of the data commands in the order they entered the channel
    recvd,         \* ids of the data commands in the order the writer received them
    exitBatch,     \* ids of the commands the thread's last drain held when it returned
    waited,        \* ms the current recv_timeout call has been waiting
    bufAge         \* ms the oldest buffered command has been in the buffer

writerVars == <<chan, buffer, db, stats, pcW, writerResult, exitOn, pcS,
                shutdownResult, sent, ctlSent, acked, refused, arrived, recvd,
                exitBatch, waited, bufAge>>

VARIABLES
    \* ---- bridge runtime (drift-napi runtime.rs, bindings)
    RUNTIME,       \* the OnceLock: 0 while unset, else the installed instance
    initPc,        \* per caller of initialize: "idle", or "built" between
                   \* DriftRuntime::new and RUNTIME.set
    initBuilt,     \* per caller, the instance DriftRuntime::new returned
    initSaw,       \* per caller, whether RUNTIME was set when its call began
    instances,     \* number of DriftRuntime instances constructed
    initCalls,     \* number of initialize calls begun
    okInits,       \* number of initialize calls that returned Ok
    firstInstalled,\* the first instance RUNTIME held
    checkpoints,   \* number of WAL checkpoints performed
    shutDown,      \* shutdown returned Ok and initialize was not called since
    lastCall       \* the bridge call that returned last

runtimeVars == <<RUNTIME, initPc, initBuilt, initSaw, instances, initCalls,
                 okInits, firstInstalled, checkpoints, shutDown, lastCall>>

VARIABLES
    \* ---- tables written by the batch writer (drift-storage batch/writer.rs)
    tables,        \* per table, the rows it holds, in insertion order
    nextRowId,     \* the next row id SQLite assigns
    pcT,           \* "fresh", "once" (a command was applied) or "twice"
                   \* (the same command was applied again)
    lastCmd,       \* the command applied last
    once,          \* the tables as they were after lastCmd was applied once
    applied        \* number of commands applied before lastCmd

tableVars == <<tables, nextRowId, pcT, lastCmd, once, applied>>

VARIABLES
    \* ---- walk_directory (drift-analysis scanner/walker.rs)
    entryKind,     \* per directory entry: "file", "dir" or "err"
    callerFlag,    \* the AtomicBool the caller handed to walk_directory
    walkFlag,      \* the Arc<AtomicBool> the closures poll
    pcWalk,        \* "idle", "walking" or "done"
    pending,       \* entries no worker has taken yet
    holding,       \* per worker, the entry its closure is processing (0: none)
    quit,          \* a closure returned WalkState::Quit
    found,         \* the DiscoveredFiles sent on the channel, in send order
    walkResult,    \* the Vec walk_directory returned
    midCancel,     \* the caller set its flag while the walk was in progress
    atCancel       \* the files found or being processed when it did

walkVars == <<entryKind, callerFlag, walkFlag, pcWalk, pending, holding, quit,
              found, walkResult, midCancel, atCancel>>

VARIABLES
    \* ---- scan bindings (drift-napi bindings/scanner.rs)
    SCAN_CANCELLED,   \* the global AtomicBool
    taskPc,           \* per scan task: "none", "queued", "scanning" or "done"
    taskKind,         \* per scan task: "scan" or "scan_with_progress"
    scannerCancelled, \* per scan task, the cancellation flag of its Scanner
    processed,        \* per scan task, the files its Scanner has processed
    taskStatus,       \* per scan task: "none", "complete", "partial" or "error"
    cancelRequested   \* per scan task: driftCancelScan was called after the
                      \* scan was requested and before it finished

scanVars == <<SCAN_CANCELLED, taskPc, taskKind, scannerCancelled, processed,
              taskStatus, cancelRequested>>

VARIABLES
    \* ---- parser manager (drift-analysis parsers/manager.rs, parsers/cache.rs)
    cache,         \* ParseCache: per fingerprint, <<>> or <<the stored record>>
    parseCalls,    \* number of parse calls made
    lastParse,     \* the last parse call: its arguments, what it found, its result
    firstRecord,   \* per content, <<>> or <<the record of its first successful parse>>
    lastComputed,  \* per fingerprint, <<>> or <<the last record the adapter produced>>
    produced,      \* per fingerprint, the records the adapter has produced
    invalidated,   \* invalidate_cache has been called
    inFlight       \* per caller, the call that missed the cache and is between
                   \* its lookup and its return

parseVars == <<cache, parseCalls, lastParse, firstRecord, lastComputed, produced, invalidated, inFlight>>

VARIABLES
    \* ---- call graph (drift-analysis call_graph/builder.rs, incremental.rs)
    graph,         \* IncrementalCallGraph::graph
    lastResults,   \* the structural records passed to the last call
    graphCalls,    \* number of full_build / update calls made
    nodePolicy,    \* what add_function does with a key it already holds
    lastOp         \* the last call: "none", "full_build" or "update"

graphVars == <<graph, lastResults, graphCalls, nodePolicy, lastOp>>

VARIABLES
    \* ---- traversal (drift-analysis call_graph/traversal.rs)
    bfsCall,       \* the arguments of the last bfs_forward / bfs_inverse call
    bfsResult      \* the Vec it returned

traverseVars == <<bfsCall, bfsResult>>

\* Confidence scorer: the last call made and the scores it returned.
VARIABLES scoreCall, scoreResult
scoreVars == <<scoreCall, scoreResult>>

\* Convention discovery: the last discover call, the conventions it returned
\* and, for each of them, the position of its pattern in the input.
VARIABLES discoverCall, conventions, origin
discoverVars == <<discoverCall, conventions, origin>>

\* Promotion: the conventions held by the caller, the last operation on them
\* and the number of promote_batch calls made.
VARIABLES store, promoteCall, promoteCalls, sourcePatterns
promoteVars == <<store, promoteCall, promoteCalls, sourcePatterns>>

\* Outlier detector: the last call made and what it returned.
VARIABLES outlierCall, outlierResult
outlierVars == <<outlierCall, outlierResult>>

\* Taint engine: the last analyze_function call and the flows it returned.
VARIABLES taintCall, taintFlows
taintVars == <<taintCall, taintFlows>>

\* Aggregation pipeline: the patterns the caller holds, and the last call on
\* the pipeline with what it was given and what it returned.
VARIABLES aggPatterns, aggCall
aggregateVars == <<aggPatterns, aggCall>>

vars == <<writerVars, runtimeVars, tableVars, walkVars, scanVars, parseVars, graphVars, traverseVars, scoreVars, discoverVars, promoteVars, outlierVars, taintVars, aggregateVars>>

notWriter == <<runtimeVars, tableVars, walkVars, scanVars, parseVars, graphVars, traverseVars, scoreVars, discoverVars, promoteVars, outlierVars, taintVars, aggregateVars>>
notRuntime == <<writerVars, tableVars, walkVars, scanVars, parseVars, graphVars, traverseVars, scoreVars, discoverVars, promoteVars, outlierVars, taintVars, aggregateVars>>
notTables == <<writerVars, runtimeVars, walkVars, scanVars, parseVars, graphVars, traverseVars, scoreVars, discoverVars, promoteVars, outlierVars, taintVars, aggregateVars>>
notWalk == <<writerVars, runtimeVars, tableVars, scanVars, parseVars, graphVars, traverseVars, scoreVars, discoverVars, promoteVars, outlierVars, taintVars, aggregateVars>>
notScan == <<writerVars, runtimeVars, tableVars, walkVars, parseVars, graphVars, traverseVars, scoreVars, discoverVars, promoteVars, outlierVars, taintVars, aggregateVars>>
notParse == <<writerVars, runtimeVars, tableVars, walkVars, scanVars, graphVars, traverseVars, scoreVars, discoverVars, promoteVars, outlierVars, taintVars, aggregateVars>>
notGraph == <<writerVars, runtimeVars, tableVars, walkVars, scanVars, parseVars, traverseVars, scoreVars, discoverVars, promoteVars, outlierVars, taintVars, aggregateVars>>
notTraverse == <<writerVars, runtimeVars, tableVars, walkVars, scanVars, parseVars, graphVars, scoreVars, discoverVars, promoteVars, outlierVars, taintVars, aggregateVars>>
notScore == <<writerVars, runtimeVars, tableVars, walkVars, scanVars, parseVars, graphVars, traverseVars, discoverVars, promoteVars, outlierVars, taintVars, aggregateVars>>
notDiscover == <<writerVars, runtimeVars, tableVars, walkVars, scanVars, parseVars, graphVars, traverseVars, scoreVars, promoteVars, outlierVars, taintVars, aggregateVars>>
notPromote == <<writerVars, runtimeVars, tableVars, walkVars, scanVars, parseVars, graphVars, traverseVars, scoreVars, discoverVars, outlierVars, taintVars, aggregateVars>>
notOutlier == <<writerVars, runtimeVars, tableVars, walkVars, scanVars, parseVars, graphVars, traverseVars, scoreVars, discoverVars, promoteVars, taintVars, aggregateVars>>
notTaint == <<writerVars, runtimeVars, tableVars, walkVars, scanVars, parseVars, graphVars, traverseVars, scoreVars, discoverVars, promoteVars, outlierVars, aggregateVars>>
notAggregate == <<writerVars, runtimeVars, tableVars, walkVars, scanVars, parseVars, graphVars, traverseVars, scoreVars, discoverVars, promoteVars, outlierVars, taintVars>>

(***************************************************************************)
(* Helpers.                                                                *)
(***************************************************************************)
Range(s) == {s[i] : i \in 1..Len(s)}

IsPrefix(s, t) == Len(s) <= Len(t) /\ \A i \in 1..Len(s) : s[i] = t[i]

Reverse(s) == [i \in 1..Len(s) |-> s[Len(s) + 1 - i]]

Ids(buf) == [i \in 1..Len(buf) |-> buf[i].id]

\* the threads that call BatchWriter::send with data commands
Senders == {1, 2}

SumSent(f) == f[1] + f[2]

(***************************************************************************)
(* Strings.  A string the program takes apart is its sequence of           *)
(* characters; Letters gives the characters of the strings in use.         *)
(***************************************************************************)
Letters(word) ==
    CASE word = "req.query" -> <<"r", "e", "q", ".", "q", "u", "e", "r", "y">>
      [] word = "req.body" -> <<"r", "e", "q", ".", "b", "o", "d", "y">>
      [] word = "req.params" ->
            <<"r", "e", "q", ".", "p", "a", "r", "a", "m", "s">>
      [] word = "req.headers" ->
            <<"r", "e", "q", ".", "h", "e", "a", "d", "e", "r", "s">>
      [] word = "request.GET" ->
            <<"r", "e", "q", "u", "e", "s", "t", ".", "G", "E", "T">>
      [] word = "request.POST" ->
            <<"r", "e", "q", "u", "e", "s", "t", ".", "P", "O", "S", "T">>
      [] word = "request.data" ->
            <<"r", "e", "q", "u", "e", "s", "t", ".", "d", "a", "t", "a">>
      [] word = "request.json" ->
            <<"r", "e", "q", "u", "e", "s", "t", ".", "j", "s", "o", "n">>
      [] word = "request.args" ->
            <<"r", "e", "q", "u", "e", "s", "t", ".", "a", "r", "g", "s">>
      [] word = "request.form" ->
            <<"r", "e", "q", "u", "e", "s", "t", ".", "f", "o", "r", "m">>
      [] word = "request.files" ->
            <<"r", "e", "q", "u", "e", "s", "t", ".", "f", "i", "l", "e", "s">>
      [] word = "getParameter" ->
            <<"g", "e", "t", "P", "a", "r", "a", "m", "e", "t", "e", "r">>
      [] word = "getQueryString" ->
            <<"g", "e", "t", "Q", "u", "e", "r", "y", "S", "t", "r", "i", "n", "g">>
      [] word = "getHeader" -> <<"g", "e", "t", "H", "e", "a", "d", "e", "r">>
      [] word = "HttpContext.Request" ->
            <<"H",
              "t", "t", "p", "C", "o", "n", "t", "e", "x", "t", ".", "R", "e", "q", "u", "e", "s", "t">>
      [] word = "Request.Query" ->
            <<"R", "e", "q", "u", "e", "s", "t", ".", "Q", "u", "e", "r", "y">>
      [] word = "Request.Form" ->
            <<"R", "e", "q", "u", "e", "s", "t", ".", "F", "o", "r", "m">>
      [] word = "params" -> <<"p", "a", "r", "a", "m", "s">>
      [] word = "user_input" ->
            <<"u", "s", "e", "r", "_", "i", "n", "p", "u", "t">>
      [] word = "stdin" -> <<"s", "t", "d", "i", "n">>
      [] word = "argv" -> <<"a", "r", "g", "v">>
      [] word = "process.env" ->
            <<"p", "r", "o", "c", "e", "s", "s", ".", "e", "n", "v">>
      [] word = "os.environ" ->
            <<"o", "s", ".", "e", "n", "v", "i", "r", "o", "n">>
      [] word = "System.getenv" ->
            <<"S", "y", "s", "t", "e", "m", ".", "g", "e", "t", "e", "n", "v">>
      [] word = "db.query" -> <<"d", "b", ".", "q", "u", "e", "r", "y">>
      [] word = "db.execute" ->
            <<"d", "b", ".", "e", "x", "e", "c", "u", "t", "e">>
      [] word = "cursor.execute" ->
            <<"c", "u", "r", "s", "o", "r", ".", "e", "x", "e", "c", "u", "t", "e">>
      [] word = "connection.query" ->
            <<"c", "o", "n", "n", "e", "c", "t", "i", "o", "n", ".", "q", "u", "e", "r", "y">>
      [] word = "raw_sql" -> <<"r", "a", "w", "_", "s", "q", "l">>
      [] word = "exec" -> <<"e", "x", "e", "c">>
      [] word = "execSync" -> <<"e", "x", "e", "c", "S", "y", "n", "c">>
      [] word = "spawn" -> <<"s", "p", "a", "w", "n">>
      [] word = "system" -> <<"s", "y", "s", "t", "e", "m">>
      [] word = "popen" -> <<"p", "o", "p", "e", "n">>
      [] word = "subprocess.run" ->
            <<"s", "u", "b", "p", "r", "o", "c", "e", "s", "s", ".", "r", "u", "n">>
      [] word = "subprocess.call" ->
            <<"s", "u", "b", "p", "r", "o", "c", "e", "s", "s", ".", "c", "a", "l", "l">>
      [] word = "Runtime.exec" ->
            <<"R", "u", "n", "t", "i", "m", "e", ".", "e", "x", "e", "c">>
      [] word = "eval" -> <<"e", "v", "a", "l">>
      [] word = "Function" -> <<"F", "u", "n", "c", "t", "i", "o", "n">>
      [] word = "res.send" -> <<"r", "e", "s", ".", "s", "e", "n", "d">>
      [] word = "res.write" -> <<"r", "e", "s", ".", "w", "r", "i", "t", "e">>
      [] word = "document.write" ->
            <<"d", "o", "c", "u", "m", "e", "n", "t", ".", "w", "r", "i", "t", "e">>
      [] word = "innerHTML" -> <<"i", "n", "n", "e", "r", "H", "T", "M", "L">>
      [] word = "render" -> <<"r", "e", "n", "d", "e", "r">>
      [] word = "res.redirect" ->
            <<"r", "e", "s", ".", "r", "e", "d", "i", "r", "e", "c", "t">>
      [] word = "redirect" -> <<"r", "e", "d", "i", "r", "e", "c", "t">>
      [] word = "fetch" -> <<"f", "e", "t", "c", "h">>
      [] word = "http.get" -> <<"h", "t", "t", "p", ".", "g", "e", "t">>
      [] word = "requests.get" ->
            <<"r", "e", "q", "u", "e", "s", "t", "s", ".", "g", "e", "t">>
      [] word = "fs.readFile" ->
            <<"f", "s", ".", "r", "e", "a", "d", "F", "i", "l", "e">>
      [] word = "fs.writeFile" ->
            <<"f", "s", ".", "w", "r", "i", "t", "e", "F", "i", "l", "e">>
      [] word = "open" -> <<"o", "p", "e", "n">>
      [] word = "JSON.parse" ->
            <<"J", "S", "O", "N", ".", "p", "a", "r", "s", "e">>
      [] word = "pickle.loads" ->
            <<"p", "i", "c", "k", "l", "e", ".", "l", "o", "a", "d", "s">>
      [] word = "yaml.load" -> <<"y", "a", "m", "l", ".", "l", "o", "a", "d">>
      [] word = "console.log" ->
            <<"c", "o", "n", "s", "o", "l", "e", ".", "l", "o", "g">>
      [] word = "logger.info" ->
            <<"l", "o", "g", "g", "e", "r", ".", "i", "n", "f", "o">>
      [] word = "setHeader" -> <<"s", "e", "t", "H", "e", "a", "d", "e", "r">>
      [] word = "new RegExp" ->
            <<"n", "e", "w", " ", "R", "e", "g", "E", "x", "p">>
      [] word = "xml.parse" -> <<"x", "m", "l", ".", "p", "a", "r", "s", "e">>
      [] word = "upload" -> <<"u", "p", "l", "o", "a", "d">>
      [] word = "escapeHtml" ->
            <<"e", "s", "c", "a", "p", "e", "H", "t", "m", "l">>
      [] word = "escape" -> <<"e", "s", "c", "a", "p", "e">>
      [] word = "sanitize" -> <<"s", "a", "n", "i", "t", "i", "z", "e">>
      [] word = "DOMPurify.sanitize" ->
            <<"D",
              "O", "M", "P", "u", "r", "i", "f", "y", ".", "s", "a", "n", "i", "t", "i", "z", "e">>
      [] word = "xss" -> <<"x", "s", "s">>
      [] word = "parameterize" ->
            <<"p", "a", "r", "a", "m", "e", "t", "e", "r", "i", "z", "e">>
      [] word = "prepare" -> <<"p", "r", "e", "p", "a", "r", "e">>
      [] word = "placeholder" ->
            <<"p", "l", "a", "c", "e", "h", "o", "l", "d", "e", "r">>
      [] word = "shellescape" ->
            <<"s", "h", "e", "l", "l", "e", "s", "c", "a", "p", "e">>
      [] word = "shlex.quote" ->
            <<"s", "h", "l", "e", "x", ".", "q", "u", "o", "t", "e">>
      [] word = "escapeshellarg" ->
            <<"e", "s", "c", "a", "p", "e", "s", "h", "e", "l", "l", "a", "r", "g">>
      [] word = "path.resolve" ->
            <<"p", "a", "t", "h", ".", "r", "e", "s", "o", "l", "v", "e">>
      [] word = "path.normalize" ->
            <<"p", "a", "t", "h", ".", "n", "o", "r", "m", "a", "l", "i", "z", "e">>
      [] word = "realpath" -> <<"r", "e", "a", "l", "p", "a", "t", "h">>
      [] word = "encodeURIComponent" ->
            <<"e",
              "n", "c", "o", "d", "e", "U", "R", "I", "C", "o", "m", "p", "o", "n", "e", "n", "t">>
      [] word = "encodeURI" -> <<"e", "n", "c", "o", "d", "e", "U", "R", "I">>
      [] word = "parseInt" -> <<"p", "a", "r", "s", "e", "I", "n", "t">>
      [] word = "Number" -> <<"N", "u", "m", "b", "e", "r">>
      [] word = "validate" -> <<"v", "a", "l", "i", "d", "a", "t", "e">>
      [] word = "req" -> <<"r", "e", "q">>
      [] word = "id" -> <<"i", "d">>
      [] word = "db" -> <<"d", "b">>
      [] word = "query" -> <<"q", "u", "e", "r", "y">>
      [] word = "a.py" -> <<"a", ".", "p", "y">>
      [] word = "b.py" -> <<"b", ".", "p", "y">>
      [] word = "foo" -> <<"f", "o", "o">>
      [] word = "bar" -> <<"b", "a", "r">>
      [] word = "b" -> <<"b">>
      [] word = "K" -> <<"K">>
      [] word = "test_foo" -> <<"t", "e", "s", "t", "_", "f", "o", "o">>
      [] word = "app.route" -> <<"a", "p", "p", ".", "r", "o", "u", "t", "e">>
      [] word = "src/a.ts" -> <<"s", "r", "c", "/", "a", ".", "t", "s">>
      [] word = "src/b.ts" -> <<"s", "r", "c", "/", "b", ".", "t", "s">>
      [] word = "notes.txt" -> <<"n", "o", "t", "e", "s", ".", "t", "x", "t">>
      [] word = "main." -> <<"m", "a", "i", "n", ".">>
      [] word = "index." -> <<"i", "n", "d", "e", "x", ".">>
      [] word = "app." -> <<"a", "p", "p", ".">>
      [] word = "server." -> <<"s", "e", "r", "v", "e", "r", ".">>
      [] word = "test_" -> <<"t", "e", "s", "t", "_">>
      [] word = "test" -> <<"t", "e", "s", "t">>
      [] word = "it_" -> <<"i", "t", "_">>
      [] word = "spec_" -> <<"s", "p", "e", "c", "_">>
      [] word = "route" -> <<"r", "o", "u", "t", "e">>
      [] word = "get" -> <<"g", "e", "t">>
      [] word = "post" -> <<"p", "o", "s", "t">>
      [] word = "put" -> <<"p", "u", "t">>
      [] word = "delete" -> <<"d", "e", "l", "e", "t", "e">>
      [] word = "patch" -> <<"p", "a", "t", "c", "h">>
      [] word = "controller" ->
            <<"c", "o", "n", "t", "r", "o", "l", "l", "e", "r">>
      [] word = "api" -> <<"a", "p", "i">>
      [] word = "endpoint" -> <<"e", "n", "d", "p", "o", "i", "n", "t">>
      [] word = "res" -> <<"r", "e", "s">>
      [] word = "res.send" -> <<"r", "e", "s", ".", "s", "e", "n", "d">>
      [] word = "req.getParameter" ->
            <<"r", "e", "q", ".", "g", "e", "t", "P", "a", "r", "a", "m", "e", "t", "e", "r">>
      [] word = "send" -> <<"s", "e", "n", "d">>
      [] word = "handler" -> <<"h", "a", "n", "d", "l", "e", "r">>
      [] word = "main.py" -> <<"m", "a", "i", "n", ".", "p", "y">>
      [] word = "index.ts" -> <<"i", "n", "d", "e", "x", ".", "t", "s">>
      [] word = "app.py" -> <<"a", "p", "p", ".", "p", "y">>
      [] word = "server.js" -> <<"s", "e", "r", "v", "e", "r", ".", "j", "s">>
      [] word = "main" -> <<"m", "a", "i", "n">>
      [] word = "run" -> <<"r", "u", "n">>
      [] word = "start" -> <<"s", "t", "a", "r", "t">>
      [] word = "init" -> <<"i", "n", "i", "t">>
      [] word = "bootstrap" -> <<"b", "o", "o", "t", "s", "t", "r", "a", "p">>
      [] word = "cli" -> <<"c", "l", "i">>
      [] word = "run_cli" -> <<"r", "u", "n", "_", "c", "l", "i">>
      [] word = "parse_args" -> <<"p", "a", "r", "s", "e", "_", "a", "r", "g", "s">>
      [] word = "testFoo" -> <<"t", "e", "s", "t", "F", "o", "o">>
      [] word = "it_works" -> <<"i", "t", "_", "w", "o", "r", "k", "s">>
      [] word = "spec_helper" -> <<"s", "p", "e", "c", "_", "h", "e", "l", "p", "e", "r">>
      [] word = "helper" -> <<"h", "e", "l", "p", "e", "r">>
      [] word = "Test_Foo" -> <<"T", "e", "s", "t", "_", "F", "o", "o">>
      [] word = "Get" -> <<"G", "e", "t">>
      [] word = "api.get" -> <<"a", "p", "i", ".", "g", "e", "t">>
      [] word = "Controller" -> <<"C", "o", "n", "t", "r", "o", "l", "l", "e", "r">>

UpperCase == <<"A", "B", "C", "D", "E", "F", "G", "H", "I", "J", "K", "L", "M",
               "N", "O", "P", "Q", "R", "S", "T", "U", "V", "W", "X", "Y", "Z">>

LowerCase == <<"a", "b", "c", "d", "e", "f", "g", "h", "i", "j", "k", "l", "m",
               "n", "o", "p", "q", "r", "s", "t", "u", "v", "w", "x", "y", "z">>

\* char::to_lowercase for the ASCII characters in use
LowerOf ==
    [c \in Range(UpperCase) \cup Range(LowerCase) \cup {".", "_", "/", ":", " "} |->
        IF \E k \in DOMAIN UpperCase : UpperCase[k] = c
        THEN LowerCase[CHOOSE k \in DOMAIN UpperCase : UpperCase[k] = c]
        ELSE c]

\* str::to_lowercase
ToLowercase(str) == [i \in DOMAIN str |-> LowerOf[str[i]]]

\* str::contains
Contains(hay, needle) ==
    \E i \in 0..(Len(hay) - Len(needle)) :
        SubSeq(hay, i + 1, i + Len(needle)) = needle

\* str::starts_with
StartsWith(str, prefix) ==
    Len(prefix) <= Len(str) /\ SubSeq(str, 1, Len(prefix)) = prefix

(***************************************************************************)
(* BatchCommand (commands.rs).  The ten table commands are one kind,       *)
(* "Data": `id` names the command and `ok` says whether its statements     *)
(* execute without an SQL error.                                           *)
(***************************************************************************)
DataCmd(s, k, ok) == [kind |-> "Data", id |-> <<s, k>>, ok |-> ok]
CtlCmd(kind) == [kind |-> kind, id |-> <<0, 0>>, ok |-> TRUE]

(***************************************************************************)
(* flush_buffer (writer.rs:126-190): one transaction for the whole buffer. *)
(* An empty buffer is a no-op.  The commands are executed in buffer order  *)
(* inside the transaction; the first failing statement returns the error   *)
(* through `?`, and so does a failing commit.  On either error the         *)
(* transaction is dropped without having been committed, which rolls back  *)
(* what was executed in it.  The buffer is drained either way.             *)
(***************************************************************************)
ExecOrderReversed(buf) == Reverse(Ids(buf))

ExecOrder(buf) == Ids(buf)

\* index of the first command whose statements fail, 0 when none does
FirstFailure(buf) ==
    IF \E i \in 1..Len(buf) : ~buf[i].ok
    THEN CHOOSE i \in 1..Len(buf) : ~buf[i].ok /\ \A j \in 1..(i - 1) : buf[j].ok
    ELSE 0

\* the commands whose statements ran inside the transaction (writer.rs:141-182)
ExecutedInTx(buf) ==
    LET f == FirstFailure(buf) IN
    IF f = 0 THEN buf ELSE SubSeq(buf, 1, f - 1)

\* the statements run without a transaction around them
DropTransactionAutocommit(dbv, executed) == dbv \o executed

\* the transaction dropped before a successful commit: rusqlite rolls it back
DropTransaction(dbv, executed) == dbv

FlushBuffer(dbv, buf, st, commit_ok) ==
    IF buf = <<>>
    THEN [ok |-> TRUE, db |-> dbv, stats |-> st, batch |-> <<>>]
    ELSE LET executed == ExecOrder(ExecutedInTx(buf)) IN
         IF FirstFailure(buf) # 0 \/ ~commit_ok
         THEN [ok |-> FALSE, db |-> DropTransaction(dbv, executed),
               stats |-> st, batch |-> Ids(buf)]
         ELSE [ok |-> TRUE, db |-> dbv \o executed,
               stats |-> [st EXCEPT !.flushes = @ + 1], batch |-> Ids(buf)]

(***************************************************************************)
(* rx.recv_timeout(FLUSH_TIMEOUT) (writer.rs:97): a queued command is      *)
(* returned first; an empty channel whose sender is gone is Disconnected;  *)
(* an empty channel that stayed empty for FLUSH_TIMEOUT is Timeout.        *)
(***************************************************************************)
SenderAlive == pcS \in {"idle", "joining"}

RecvTimeout ==
    IF chan # <<>> THEN "Ok"
    ELSE IF ~SenderAlive THEN "Disconnected"
    ELSE IF waited >= FLUSH_TIMEOUT THEN "Timeout"
    ELSE "Blocked"

InitWriter ==
    /\ chan = <<>>
    /\ buffer = <<>>
    /\ db = <<>>
    /\ stats = [flushes |-> 0]
    /\ pcW = "recv"
    /\ writerResult = "none"
    /\ exitOn = "none"
    /\ pcS = "idle"
    /\ shutdownResult = "none"
    /\ sent = [s \in Senders |-> 0]
    /\ ctlSent = 0
    /\ acked = {}
    /\ refused = {}
    /\ arrived = <<>>
    /\ recvd = <<>>
    /\ exitBatch = <<>>
    /\ waited = 0
    /\ bufAge = 0

(***************************************************************************)
(* BatchWriter::send (writer.rs:58-62) with a data command: the channel's  *)
(* send blocks while the channel is full and fails once the receiver is    *)
(* gone.                                                                   *)
(***************************************************************************)
SendData(s, ok) ==
    /\ UNCHANGED notWriter
    /\ pcS = "idle"
    /\ SumSent(sent) < MaxData
    /\ sent' = [sent EXCEPT ![s] = @ + 1]
    /\ LET cmd == DataCmd(s, sent[s] + 1, ok) IN
       IF pcW = "done"
       THEN /\ refused' = refused \cup {cmd.id}
            /\ UNCHANGED <<chan, acked, arrived>>
       ELSE /\ Len(chan) < CHANNEL_BOUND
            /\ chan' = Append(chan, cmd)
            /\ acked' = acked \cup {cmd.id}
            /\ arrived' = Append(arrived, cmd.id)
            /\ UNCHANGED refused
    /\ UNCHANGED <<buffer, db, stats, pcW, writerResult, exitOn, pcS,
                   shutdownResult, ctlSent, recvd, exitBatch, waited, bufAge>>

(***************************************************************************)
(* BatchWriter::flush (writer.rs:65-67) and send(BatchCommand::Shutdown):  *)
(* a control command sent through send.                                    *)
(***************************************************************************)
SendCtl(kind) ==
    /\ UNCHANGED notWriter
    /\ pcS = "idle"
    /\ ctlSent < MaxCtl
    /\ ctlSent' = ctlSent + 1
    /\ IF pcW = "done"
       THEN UNCHANGED chan
       ELSE /\ Len(chan) < CHANNEL_BOUND
            /\ chan' = Append(chan, CtlCmd(kind))
    /\ UNCHANGED <<buffer, db, stats, pcW, writerResult, exitOn, pcS,
                   shutdownResult, sent, acked, refused, arrived, recvd, exitBatch,
                   waited, bufAge>>

(***************************************************************************)
(* BatchWriter::shutdown (writer.rs:70-79): send Shutdown, ignoring a      *)
(* send error, then join the thread.  shutdown takes the writer by value,  *)
(* so no send can follow it.                                               *)
(***************************************************************************)
ShutdownSend ==
    /\ UNCHANGED notWriter
    /\ pcS = "idle"
    /\ pcS' = "joining"
    /\ IF pcW = "done"
       THEN UNCHANGED chan
       ELSE /\ Len(chan) < CHANNEL_BOUND
            /\ chan' = Append(chan, CtlCmd("Shutdown"))
    /\ UNCHANGED <<buffer, db, stats, pcW, writerResult, exitOn,
                   shutdownResult, sent, ctlSent, acked, refused, arrived,
                   recvd, exitBatch, waited, bufAge>>

JoinResult == writerResult

ShutdownJoin ==
    /\ UNCHANGED notWriter
    /\ pcS = "joining"
    /\ pcW = "done"
    /\ pcS' = "returned"
    /\ shutdownResult' = JoinResult
    /\ UNCHANGED <<chan, buffer, db, stats, pcW, writerResult, exitOn, sent,
                   ctlSent, acked, refused, arrived, recvd, exitBatch, waited,
                   bufAge>>

(***************************************************************************)
(* Drop for BatchWriter (writer.rs:82-87) without a shutdown call: send    *)
(* Shutdown, ignoring a send error; the sender is dropped after it.        *)
(***************************************************************************)
DropWriter ==
    /\ UNCHANGED notWriter
    /\ pcS = "idle"
    /\ pcS' = "dropped"
    /\ IF pcW = "done"
       THEN UNCHANGED chan
       ELSE /\ Len(chan) < CHANNEL_BOUND
            /\ chan' = Append(chan, CtlCmd("Shutdown"))
    /\ UNCHANGED <<buffer, db, stats, pcW, writerResult, exitOn,
                   shutdownResult, sent, ctlSent, acked, refused, arrived,
                   recvd, exitBatch, waited, bufAge>>

(***************************************************************************)
(* Time passes while the writer thread is blocked in recv_timeout.         *)
(***************************************************************************)
Tick ==
    /\ UNCHANGED notWriter
    /\ pcW = "recv"
    /\ RecvTimeout = "Blocked"
    /\ waited' = waited + TickMs
    /\ bufAge' = IF buffer = <<>> THEN 0 ELSE bufAge + TickMs
    /\ UNCHANGED <<chan, buffer, db, stats, pcW, writerResult, exitOn, pcS,
                   shutdownResult, sent, ctlSent, acked, refused, arrived,
                   recvd, exitBatch>>

(***************************************************************************)
(* One iteration of writer_loop (writer.rs:96-121).                        *)
(***************************************************************************)
\* the thread returns: Ok(stats) after the final drain, or the drain's error
Exit(r, on) ==
    /\ pcW' = "done"
    /\ writerResult' = IF r.ok THEN "Ok" ELSE "Err"
    /\ exitOn' = on
    /\ db' = r.db
    /\ stats' = r.stats
    /\ exitBatch' = r.batch
    /\ buffer' = <<>>
    /\ bufAge' = 0

\* flush_buffer(...)? inside the loop: the loop goes on unless the drain failed
\* a loop that goes on after a failed drain
DrainAndGoOn(buf, on, commit_ok) ==
    LET r == FlushBuffer(db, buf, stats, commit_ok) IN
    /\ db' = r.db
    /\ stats' = r.stats
    /\ buffer' = <<>>
    /\ bufAge' = 0
    /\ writerResult' = IF r.ok THEN writerResult ELSE "Err"
    /\ UNCHANGED <<pcW, exitOn, exitBatch>>

Drain(buf, on, commit_ok) ==
    LET r == FlushBuffer(db, buf, stats, commit_ok) IN
    IF r.ok
    THEN /\ db' = r.db
         /\ stats' = r.stats
         /\ buffer' = <<>>
         /\ bufAge' = 0
         /\ UNCHANGED <<pcW, writerResult, exitOn, exitBatch>>
    ELSE Exit(r, on)

OnShutdownNoDrain(commit_ok) ==
    Exit([ok |-> TRUE, db |-> db, stats |-> stats, batch |-> <<>>], "Shutdown")

\* Ok(BatchCommand::Shutdown) => { flush_buffer(..)?; break; }
OnShutdown(commit_ok) == Exit(FlushBuffer(db, buffer, stats, commit_ok), "Shutdown")

\* buffer.push(cmd); if buffer.len() >= BATCH_SIZE { flush_buffer(..)?; }
OnData(cmd, commit_ok) ==
    LET pushed == Append(buffer, cmd) IN
    IF Len(pushed) >= BATCH_SIZE
    THEN Drain(pushed, "Data", commit_ok)
    ELSE /\ buffer' = pushed
         /\ bufAge' = IF buffer = <<>> THEN 0 ELSE bufAge
         /\ UNCHANGED <<db, stats, pcW, writerResult, exitOn, exitBatch>>

\* Err(Timeout) => { if !buffer.is_empty() { flush_buffer(..)?; } }
OnTimeout(commit_ok) ==
    IF buffer # <<>>
    THEN Drain(buffer, "Timeout", commit_ok)
    ELSE UNCHANGED <<buffer, db, stats, pcW, writerResult, exitOn, exitBatch, bufAge>>

\* commit_ok: whether tx.commit() of a drain made in this iteration succeeds
WriterStep(commit_ok) ==
    /\ UNCHANGED notWriter
    /\ pcW = "recv"
    /\ RecvTimeout # "Blocked"
    /\ waited' = 0
    /\ CASE RecvTimeout = "Ok" ->
              LET cmd == Head(chan) IN
              /\ chan' = Tail(chan)
              /\ recvd' = IF cmd.kind = "Data" THEN Append(recvd, cmd.id) ELSE recvd
              /\ CASE cmd.kind = "Shutdown" -> OnShutdown(commit_ok)
                   [] cmd.kind = "Flush" -> Drain(buffer, "Flush", commit_ok)
                   [] OTHER -> OnData(cmd, commit_ok)
         [] RecvTimeout = "Timeout" ->
              /\ OnTimeout(commit_ok)
              /\ UNCHANGED <<chan, recvd>>
         [] OTHER ->
              \* Err(Disconnected) => { flush_buffer(..)?; break; }
              /\ Exit(FlushBuffer(db, buffer, stats, commit_ok), "Disconnected")
              /\ UNCHANGED <<chan, recvd>>
    /\ UNCHANGED <<pcS, shutdownResult, sent, ctlSent, acked, refused, arrived>>

NextWriter ==
    \/ \E s \in Senders, ok \in BOOLEAN : SendData(s, ok)
    \/ \E kind \in {"Flush", "Shutdown"} : SendCtl(kind)
    \/ ShutdownSend
    \/ ShutdownJoin
    \/ DropWriter
    \/ Tick
    \/ \E commit_ok \in BOOLEAN : WriterStep(commit_ok)

(***************************************************************************)
(* The bridge runtime: drift-napi/src/runtime.rs and the bindings.         *)
(***************************************************************************)
\* the threads that call driftInitialize
Callers == {1, 2}

NoCall == [fn |-> "none", result |-> "none", installed |-> FALSE,
           afterShutdown |-> FALSE]

Returned(fn, result, installed, after) ==
    [fn |-> fn, result |-> result, installed |-> installed,
     afterShutdown |-> after]

\* DriftRuntime::new (runtime.rs:48-118): the configuration is resolved first
\* (only a given TOML text can fail), then the database directory is created,
\* then the database is opened.
DriftRuntimeNew(configToml, dirOk, dbOk) ==
    IF configToml = "invalid" THEN "CONFIG_ERROR"
    ELSE IF ~dirOk THEN "INIT_ERROR"
    ELSE IF ~dbOk THEN "STORAGE_ERROR"
    ELSE "Ok"

\* runtime::get (runtime.rs:138-145)
Get == IF RUNTIME # 0 THEN "Ok" ELSE "RUNTIME_NOT_INITIALIZED"

\* runtime::is_initialized (runtime.rs:148-150)
IsInitialized == RUNTIME # 0

\* bindings/analysis.rs: each begins with runtime::get()?
AnalysisBindings == {"drift_analyze", "drift_call_graph", "drift_boundaries"}
\* bindings/scanner.rs: ScanTask::compute begins with runtime::get()?
ScannerBindings == {"drift_scan"}
\* bindings/patterns.rs: each returns an empty page
PatternBindings == {"drift_patterns", "drift_confidence", "drift_outliers",
                    "drift_conventions"}
\* bindings/enforcement.rs: each returns an empty result
EnforcementBindings == {"drift_check", "drift_audit", "drift_violations",
                        "drift_gates"}
\* bindings/feedback.rs: each returns success
FeedbackBindings == {"drift_dismiss_violation", "drift_fix_violation",
                     "drift_suppress_violation"}

WorkFunctions == AnalysisBindings \cup ScannerBindings \cup PatternBindings
                    \cup EnforcementBindings \cup FeedbackBindings

\* the bindings whose body calls runtime::get
CallsGet(fn) == fn \in AnalysisBindings \cup ScannerBindings

\* what a work function returns
WorkResult(fn) == IF CallsGet(fn) THEN Get ELSE "Ok"

InitRuntime ==
    /\ RUNTIME = 0
    /\ initPc = [c \in Callers |-> "idle"]
    /\ initBuilt = [c \in Callers |-> 0]
    /\ initSaw = [c \in Callers |-> FALSE]
    /\ instances = 0
    /\ initCalls = 0
    /\ okInits = 0
    /\ firstInstalled = 0
    /\ checkpoints = 0
    /\ shutDown = FALSE
    /\ lastCall = NoCall

\* runtime::initialize (runtime.rs:125-126), called by drift_initialize
\* (lifecycle.rs:28-40): `let runtime = DriftRuntime::new(opts)?;`
InitializeNew(c, configToml, dirOk, dbOk) ==
    /\ UNCHANGED notRuntime
    /\ initPc[c] = "idle"
    /\ initCalls < MaxInitCalls
    /\ initCalls' = initCalls + 1
    /\ shutDown' = FALSE
    /\ LET r == DriftRuntimeNew(configToml, dirOk, dbOk) IN
       IF r = "Ok"
       THEN /\ instances' = instances + 1
            /\ initBuilt' = [initBuilt EXCEPT ![c] = instances + 1]
            /\ initSaw' = [initSaw EXCEPT ![c] = RUNTIME # 0]
            /\ initPc' = [initPc EXCEPT ![c] = "built"]
            /\ UNCHANGED lastCall
       ELSE /\ lastCall' = Returned("drift_initialize", r, RUNTIME # 0, FALSE)
            /\ UNCHANGED <<instances, initBuilt, initSaw, initPc>>
    /\ UNCHANGED <<RUNTIME, okInits, firstInstalled, checkpoints>>

\* runtime::initialize (runtime.rs:127-132): RUNTIME.set(Arc::new(runtime)),
\* an occupied cell giving ALREADY_INITIALIZED

\* a cell that takes every value offered to it
OnceLockSetOverwrite(cell, value) == value

OnceLockSet(cell, value) == IF cell = 0 THEN value ELSE cell

InitializeSet(c) ==
    /\ UNCHANGED notRuntime
    /\ initPc[c] = "built"
    /\ initPc' = [initPc EXCEPT ![c] = "idle"]
    /\ RUNTIME' = OnceLockSet(RUNTIME, initBuilt[c])
    /\ firstInstalled' = IF firstInstalled = 0 THEN RUNTIME' ELSE firstInstalled
    /\ okInits' = IF RUNTIME = 0 THEN okInits + 1 ELSE okInits
    /\ lastCall' = Returned("drift_initialize",
                            IF RUNTIME = 0 THEN "Ok" ELSE "ALREADY_INITIALIZED",
                            initSaw[c], FALSE)
    /\ UNCHANGED <<initBuilt, initSaw, instances, initCalls, checkpoints,
                   shutDown>>

\* drift_shutdown (lifecycle.rs:51-60): runtime::get()?, then the WAL
\* checkpoint; the OnceLock is left as it is
DriftShutdown(checkpointOk) ==
    /\ UNCHANGED notRuntime
    /\ LET r == IF Get # "Ok" THEN Get
                ELSE IF checkpointOk THEN "Ok" ELSE "STORAGE_ERROR" IN
       /\ lastCall' = Returned("drift_shutdown", r, RUNTIME # 0, shutDown)
       /\ shutDown' = (shutDown \/ r = "Ok")
       /\ checkpoints' = IF r = "Ok" /\ checkpoints < MaxCheckpoints
                         THEN checkpoints + 1 ELSE checkpoints
    /\ UNCHANGED <<RUNTIME, initPc, initBuilt, initSaw, instances, initCalls,
                   okInits, firstInstalled>>

\* drift_is_initialized (lifecycle.rs:66-68)
DriftIsInitialized ==
    /\ UNCHANGED notRuntime
    /\ lastCall' = Returned("drift_is_initialized",
                            IF IsInitialized THEN "true" ELSE "false",
                            RUNTIME # 0, shutDown)
    /\ UNCHANGED <<RUNTIME, initPc, initBuilt, initSaw, instances, initCalls,
                   okInits, firstInstalled, checkpoints, shutDown>>

\* a work function of the bridge
DriftWork(fn) ==
    /\ UNCHANGED notRuntime
    /\ lastCall' = Returned(fn, WorkResult(fn), RUNTIME # 0, shutDown)
    /\ UNCHANGED <<RUNTIME, initPc, initBuilt, initSaw, instances, initCalls,
                   okInits, firstInstalled, checkpoints, shutDown>>

NextRuntime ==
    \/ \E c \in Callers, t \in {"none", "valid", "invalid"}, d, o \in BOOLEAN :
          InitializeNew(c, t, d, o)
    \/ \E c \in Callers : InitializeSet(c)
    \/ \E k \in BOOLEAN : DriftShutdown(k)
    \/ DriftIsInitialized
    \/ \E fn \in WorkFunctions : DriftWork(fn)

(***************************************************************************)
(* The statements of the batch writer (writer.rs:192-445) on the tables.   *)
(* A row is its primary-key columns `pk` and its other columns `val`; a    *)
(* stored row also has the row id SQLite gave it.                          *)
(***************************************************************************)
Keys == {1, 2}
Vals == {1, 2}
Rows == [pk : Keys, val : Vals]

\* the table commands of BatchCommand (commands.rs:5-30)
InsertKinds == {"UpsertFileMetadata", "InsertParseCache", "InsertFunctions",
                "InsertCallEdges", "InsertDetections", "InsertBoundaries",
                "InsertPatternConfidence", "InsertOutliers",
                "InsertConventions"}
TableKinds == InsertKinds \cup {"DeleteFileMetadata"}

\* the table a command writes (the match arms of flush_buffer, writer.rs:142-181)
TableOf(kind) ==
    CASE kind = "UpsertFileMetadata" -> "file_metadata"
      [] kind = "DeleteFileMetadata" -> "file_metadata"
      [] kind = "InsertParseCache" -> "parse_cache"
      [] kind = "InsertFunctions" -> "functions"
      [] kind = "InsertCallEdges" -> "call_edges"
      [] kind = "InsertDetections" -> "detections"
      [] kind = "InsertBoundaries" -> "boundaries"
      [] kind = "InsertPatternConfidence" -> "pattern_confidence"
      [] kind = "InsertOutliers" -> "outliers"
      [] OTHER -> "conventions"

TableNames == {TableOf(k) : k \in TableKinds}

\* the SQL verb of the prepared statement each command runs
\* (writer.rs:198, 231, 259, 296, 316, 338, 362, 384, 408, 430)
StatementOf(kind) ==
    CASE kind \in {"UpsertFileMetadata", "InsertParseCache", "InsertFunctions",
                   "InsertCallEdges", "InsertPatternConfidence"}
            -> "INSERT OR REPLACE"
      [] kind = "DeleteFileMetadata" -> "DELETE"
      [] OTHER -> "INSERT"

\* INSERT OR REPLACE: a stored row with the same primary key is deleted, then
\* the row is inserted
InsertOrReplace(stored, row, rowid) ==
    Append(SelectSeq(stored, LAMBDA r : r.pk # row.pk),
           [rowid |-> rowid, pk |-> row.pk, val |-> row.val])

\* INSERT into a table keyed by its generated id column: the row is added
InsertPlain(stored, row, rowid) ==
    Append(stored, [rowid |-> rowid, pk |-> row.pk, val |-> row.val])

\* DELETE FROM file_metadata WHERE path = ?1
DeleteWhere(stored, row) == SelectSeq(stored, LAMBDA r : r.pk # row.pk)

Execute(stmt, stored, row, rowid) ==
    CASE stmt = "INSERT OR REPLACE" -> InsertOrReplace(stored, row, rowid)
      [] stmt = "DELETE" -> DeleteWhere(stored, row)
      [] OTHER -> InsertPlain(stored, row, rowid)

\* `for row in rows { stmt.execute(..)?; }`: the rows of a command in order
RECURSIVE ExecuteRows(_, _, _, _)
ExecuteRows(stmt, stored, rows, rowid) ==
    IF rows = <<>> THEN stored
    ELSE ExecuteRows(stmt, Execute(stmt, stored, Head(rows), rowid),
                     Tail(rows), rowid + 1)

\* one match arm of flush_buffer: the command's statement on its table
ApplyCommand(tbls, cmd, rowid) ==
    [tbls EXCEPT ![TableOf(cmd.kind)] =
        ExecuteRows(StatementOf(cmd.kind), @, cmd.rows, rowid)]

RowBatches == UNION {[1..n -> Rows] : n \in 1..MaxRows}

TableCommands == [kind : TableKinds, rows : RowBatches]

NoCommand == [kind |-> "none", rows |-> <<>>]

InitTables ==
    /\ tables = [t \in TableNames |-> <<>>]
    /\ nextRowId = 1
    /\ pcT = "fresh"
    /\ lastCmd = NoCommand
    /\ once = [t \in TableNames |-> <<>>]
    /\ applied = 0

\* a command is committed
Apply(cmd) ==
    /\ UNCHANGED notTables
    /\ pcT \in {"fresh", "once"}
    /\ applied <= MaxPrior
    /\ applied' = applied + 1
    /\ tables' = ApplyCommand(tables, cmd, nextRowId)
    /\ nextRowId' = nextRowId + Len(cmd.rows)
    /\ lastCmd' = cmd
    /\ once' = tables'
    /\ pcT' = "once"

\* the command committed last is committed again
Reapply ==
    /\ UNCHANGED notTables
    /\ pcT = "once"
    /\ tables' = ApplyCommand(tables, lastCmd, nextRowId)
    /\ nextRowId' = nextRowId + Len(lastCmd.rows)
    /\ pcT' = "twice"
    /\ UNCHANGED <<lastCmd, once, applied>>

NextTables ==
    \/ \E cmd \in TableCommands : Apply(cmd)
    \/ Reapply

(***************************************************************************)
(* walk_directory (drift-analysis/src/scanner/walker.rs:41-136).           *)
(* An entry is named by its rank in path order.                            *)
(***************************************************************************)
Entries == 1..NEntries

\* the threads of WalkParallel
Workers == {1, 2}

\* files.sort_by(|a, b| a.path.cmp(&b.path)) (walker.rs:134)
SortedSeq(S) ==
    [i \in 1..Cardinality(S) |->
        CHOOSE e \in S : Cardinality({x \in S : x < e}) = i - 1]

InitWalk ==
    /\ entryKind = [e \in Entries |-> "file"]
    /\ callerFlag = FALSE
    /\ walkFlag = FALSE
    /\ pcWalk = "idle"
    /\ pending = Entries
    /\ holding = [w \in Workers |-> 0]
    /\ quit = FALSE
    /\ found = <<>>
    /\ walkResult = <<>>
    /\ midCancel = FALSE
    /\ atCancel = {}

\* walker.rs:84: Arc::new(AtomicBool::new(cancelled.load(Ordering::Relaxed)))
FlagForClosures(flag) == flag

\* walker.rs:46-84: the channel, the builder over the tree under root, and
\* the flag the closures share
WalkStart(kinds) ==
    /\ UNCHANGED notWalk
    /\ pcWalk = "idle"
    /\ pcWalk' = "walking"
    /\ entryKind' = kinds
    /\ walkFlag' = FlagForClosures(callerFlag)
    /\ UNCHANGED <<callerFlag, pending, holding, quit, found, walkResult,
                   midCancel, atCancel>>

\* walker.rs:89-92: a worker's closure is called with the next entry and
\* polls the flag: set, it returns WalkState::Quit
VisitBegin(w, e) ==
    /\ UNCHANGED notWalk
    /\ pcWalk = "walking"
    /\ ~quit
    /\ holding[w] = 0
    /\ e \in pending
    /\ pending' = pending \ {e}
    /\ IF walkFlag
       THEN /\ quit' = TRUE
            /\ UNCHANGED holding
       ELSE /\ holding' = [holding EXCEPT ![w] = e]
            /\ UNCHANGED quit
    /\ UNCHANGED <<entryKind, callerFlag, walkFlag, pcWalk, found, walkResult,
                   midCancel, atCancel>>

\* walker.rs:94-127: an error entry and a non-file are skipped; a regular
\* file is sent on the channel
VisitEnd(w) ==
    /\ UNCHANGED notWalk
    /\ pcWalk = "walking"
    /\ holding[w] # 0
    /\ holding' = [holding EXCEPT ![w] = 0]
    /\ found' = IF entryKind[holding[w]] = "file"
                THEN Append(found, holding[w]) ELSE found
    /\ UNCHANGED <<entryKind, callerFlag, walkFlag, pcWalk, pending, quit,
                   walkResult, midCancel, atCancel>>

\* walker.rs:131-135: the walk is over; the files are collected and sorted
WalkFinish ==
    /\ UNCHANGED notWalk
    /\ pcWalk = "walking"
    /\ \A w \in Workers : holding[w] = 0
    /\ quit \/ pending = {}
    /\ pcWalk' = "done"
    /\ walkResult' = SortedSeq(Range(found))
    /\ UNCHANGED <<entryKind, callerFlag, walkFlag, pending, holding, quit,
                   found, midCancel, atCancel>>

\* the caller sets the flag it handed to walk_directory
CallerCancel ==
    /\ UNCHANGED notWalk
    /\ ~callerFlag
    /\ callerFlag' = TRUE
    /\ midCancel' = (pcWalk = "walking")
    /\ atCancel' = IF pcWalk = "walking"
                   THEN Range(found) \cup {holding[w] : w \in Workers}
                   ELSE {}
    /\ UNCHANGED <<entryKind, walkFlag, pcWalk, pending, holding, quit, found,
                   walkResult>>

NextWalk ==
    \/ \E kinds \in [Entries -> {"file", "dir", "err"}] : WalkStart(kinds)
    \/ \E w \in Workers, e \in Entries : VisitBegin(w, e)
    \/ \E w \in Workers : VisitEnd(w)
    \/ WalkFinish
    \/ CallerCancel

(***************************************************************************)
(* The scan bindings (drift-napi/src/bindings/scanner.rs).                 *)
(***************************************************************************)
Tasks == 1..MaxScans

InitScan ==
    /\ SCAN_CANCELLED = FALSE
    /\ taskPc = [t \in Tasks |-> "none"]
    /\ taskKind = [t \in Tasks |-> "scan"]
    /\ scannerCancelled = [t \in Tasks |-> FALSE]
    /\ processed = [t \in Tasks |-> 0]
    /\ taskStatus = [t \in Tasks |-> "none"]
    /\ cancelRequested = [t \in Tasks |-> FALSE]

\* drift_scan (scanner.rs:82-88) and drift_scan_with_progress
\* (scanner.rs:135-146): reset_cancellation(), then the task is queued on the
\* thread pool
DriftScan(t, kind) ==
    /\ UNCHANGED notScan
    /\ taskPc[t] = "none"
    /\ \A u \in Tasks : u < t => taskPc[u] # "none"
    /\ SCAN_CANCELLED' = FALSE
    /\ taskPc' = [taskPc EXCEPT ![t] = "queued"]
    /\ taskKind' = [taskKind EXCEPT ![t] = kind]
    /\ UNCHANGED <<scannerCancelled, processed, taskStatus, cancelRequested>>

\* drift_cancel_scan (scanner.rs:156-159)
DriftCancelScan ==
    /\ UNCHANGED notScan
    /\ SCAN_CANCELLED' = TRUE
    /\ cancelRequested' =
          [t \in Tasks |-> cancelRequested[t] \/ taskPc[t] \in {"queued", "scanning"}]
    /\ UNCHANGED <<taskPc, taskKind, scannerCancelled, processed, taskStatus>>

\* ScanTask::compute (scanner.rs:48-56), ScanWithProgressTask::compute
\* (scanner.rs:104-110): runtime::get()?, a new Scanner, and in ScanTask a
\* set global flag is cleared.  The flag is not handed to the Scanner.
ComputeStart(t) ==
    /\ UNCHANGED notScan
    /\ taskPc[t] = "queued"
    /\ IF Get # "Ok"
       THEN /\ taskPc' = [taskPc EXCEPT ![t] = "done"]
            /\ taskStatus' = [taskStatus EXCEPT ![t] = "error"]
            /\ UNCHANGED <<SCAN_CANCELLED, scannerCancelled>>
       ELSE /\ taskPc' = [taskPc EXCEPT ![t] = "scanning"]
            /\ scannerCancelled' = [scannerCancelled EXCEPT ![t] = FALSE]
            /\ SCAN_CANCELLED' = IF taskKind[t] = "scan" THEN FALSE
                                 ELSE SCAN_CANCELLED
            /\ UNCHANGED taskStatus
    /\ UNCHANGED <<taskKind, processed, cancelRequested>>

\* scanner.scan(..) (scanner.rs:62-64, 114-116): the Scanner polls its own
\* flag between files and stops with a partial result when it is set
ScanFile(t) ==
    /\ UNCHANGED notScan
    /\ taskPc[t] = "scanning"
    /\ processed[t] < NScanFiles
    /\ IF scannerCancelled[t]
       THEN /\ taskPc' = [taskPc EXCEPT ![t] = "done"]
            /\ taskStatus' = [taskStatus EXCEPT ![t] = "partial"]
            /\ UNCHANGED processed
       ELSE /\ processed' = [processed EXCEPT ![t] = @ + 1]
            /\ UNCHANGED <<taskPc, taskStatus>>
    /\ UNCHANGED <<SCAN_CANCELLED, taskKind, scannerCancelled, cancelRequested>>

\* Ok(ScanSummary::from(&diff)) (scanner.rs:66, 118)
ComputeFinish(t) ==
    /\ UNCHANGED notScan
    /\ taskPc[t] = "scanning"
    /\ processed[t] = NScanFiles
    /\ taskPc' = [taskPc EXCEPT ![t] = "done"]
    /\ taskStatus' = [taskStatus EXCEPT ![t] =
                         IF scannerCancelled[t] THEN "partial" ELSE "complete"]
    /\ UNCHANGED <<SCAN_CANCELLED, taskKind, scannerCancelled, processed,
                   cancelRequested>>

NextScan ==
    \/ \E t \in Tasks, kind \in {"scan", "scan_with_progress"} : DriftScan(t, kind)
    \/ DriftCancelScan
    \/ \E t \in Tasks : ComputeStart(t)
    \/ \E t \in Tasks : ScanFile(t)
    \/ \E t \in Tasks : ComputeFinish(t)
    \/ InitializeNew(1, "none", TRUE, TRUE)
    \/ InitializeSet(1)

(***************************************************************************)
(* ParserManager and ParseCache (drift-analysis/src/parsers/manager.rs,    *)
(* cache.rs).                                                              *)
(***************************************************************************)
Contents == 0..MaxContent

Fingerprints == 0..(FingerprintSpace - 1)

SourcePaths == {"src/a.ts", "src/b.ts", "notes.txt"}

\* path.extension()
Extension(path) ==
    CASE path \in {"src/a.ts", "src/b.ts"} -> "ts"
      [] OTHER -> "txt"

\* Language::from_extension (language_detect.rs:22-36): <<>> is None
FromExtension(ext) ==
    CASE ext \in {"ts", "tsx", "mts", "cts"} -> <<"TypeScript">>
      [] ext \in {"js", "jsx", "mjs", "cjs"} -> <<"JavaScript">>
      [] ext \in {"py", "pyi"} -> <<"Python">>
      [] ext = "java" -> <<"Java">>
      [] ext = "cs" -> <<"CSharp">>
      [] ext = "go" -> <<"Go">>
      [] ext = "rs" -> <<"Rust">>
      [] ext \in {"rb", "rake", "gemspec"} -> <<"Ruby">>
      [] ext = "php" -> <<"Php">>
      [] ext \in {"kt", "kts"} -> <<"Kotlin">>
      [] OTHER -> <<>>

\* hash_content: the fingerprint of the raw bytes
HashContent(source) == source % FingerprintSpace

\* languages/mod.rs:26-69: what the adapter builds from (source, path): the
\* record carries the path, the language, the fingerprint and the structure
\* extracted from the bytes
ParseWithLanguage(source, path, lang) ==
    [file |-> path, language |-> lang, content_hash |-> HashContent(source),
     structure |-> source]

\* a lookup that never finds an entry
CacheGetNothing(c, content_hash) == <<>>

\* ParseCache::get (cache.rs:22-24)
CacheGet(c, content_hash) == c[content_hash]

\* ParseCache::insert (cache.rs:27-29)
CacheInsert(c, content_hash, result) == [c EXCEPT ![content_hash] = <<result>>]

\* ParseCache::entry_count (cache.rs:32-34)
EntryCount(c) == Cardinality({h \in Fingerprints : c[h] # <<>>})

\* the threads that share one ParserManager (parse takes &self)
ParseCallers == {"t1", "t2"}

\* the languages parse_with_language is called with
ParseLanguages == {"Python"}

\* the paths parse_with_language is called with: one whose extension names
\* no language
LanguagePaths == {"notes.txt"}

\* ParserManager::detect_language (manager.rs:81-83)
DetectLanguage(path) == FromExtension(Extension(path))

NoParse == [fn |-> "none", source |-> 0, path |-> "", wasCached |-> FALSE,
            tag |-> "none", rec |-> <<>>, adapter |-> FALSE]

NoPending == [fn |-> "none", source |-> 0, path |-> "", lang |-> "", wasCached |-> FALSE,
              result |-> <<>>]

InitParse ==
    /\ cache = [h \in Fingerprints |-> <<>>]
    /\ parseCalls = 0
    /\ lastParse = NoParse
    /\ firstRecord = [s \in Contents |-> <<>>]
    /\ lastComputed = [h \in Fingerprints |-> <<>>]
    /\ produced = [h \in Fingerprints |-> {}]
    /\ invalidated = FALSE
    /\ inFlight = [t \in ParseCallers |-> NoPending]

\* a call returns: what it was called with, what the lookup found, its result
Return(fn, source, path, wasCached, tag, rec, adapter) ==
    /\ lastParse' = [fn |-> fn, source |-> source, path |-> path,
                     wasCached |-> wasCached, tag |-> tag, rec |-> rec,
                     adapter |-> adapter]
    /\ firstRecord' = IF tag = "Ok" /\ firstRecord[source] = <<>>
                      THEN [firstRecord EXCEPT ![source] = rec]
                      ELSE firstRecord

\* manager.rs:97-102, 121-125: the fingerprint and the lookup; a hit returns
\* the stored record, a miss goes on to the adapter with no lock held
Lookup(t, fn, source, path, lang) ==
    LET content_hash == HashContent(source)
        cached == CacheGet(cache, content_hash)
    IN  IF cached # <<>>
        THEN /\ Return(fn, source, path, cache[content_hash] # <<>>, "Ok", cached, FALSE)
             /\ UNCHANGED inFlight
        ELSE /\ inFlight' = [inFlight EXCEPT ![t] =
                               [fn |-> fn, source |-> source, path |-> path, lang |-> lang,
                                wasCached |-> cache[content_hash] # <<>>, result |-> <<>>]]
             /\ UNCHANGED <<lastParse, firstRecord>>

\* ParserManager::parse (manager.rs:86-102): language detection, then the
\* lookup
Parse(t, source, path) ==
    /\ UNCHANGED notParse
    /\ inFlight[t] = NoPending
    /\ parseCalls < MaxParses
    /\ parseCalls' = parseCalls + 1
    /\ LET lang == DetectLanguage(path)
       IN  IF lang = <<>>
           THEN /\ Return("parse", source, path, cache[HashContent(source)] # <<>>,
                          "UnsupportedLanguage", <<>>, FALSE)
                /\ UNCHANGED inFlight
           ELSE Lookup(t, "parse", source, path, lang[1])
    /\ UNCHANGED <<cache, lastComputed, produced, invalidated>>

\* ParserManager::parse_with_language (manager.rs:115-125): the lookup for
\* a language the caller names, whatever the extension of the path
ManagerParseWithLanguage(t, source, path, lang) ==
    /\ UNCHANGED notParse
    /\ inFlight[t] = NoPending
    /\ parseCalls < MaxParses
    /\ parseCalls' = parseCalls + 1
    /\ Lookup(t, "parse_with_language", source, path, lang)
    /\ UNCHANGED <<cache, lastComputed, produced, invalidated>>

\* manager.rs:105-106, 127-128: after a miss the adapter parses, with no
\* lock held; its record stays with the caller, its error is returned
RunAdapter(t, adapterOk) ==
    /\ UNCHANGED notParse
    /\ inFlight[t] # NoPending
    /\ inFlight[t].result = <<>>
    /\ LET call == inFlight[t]
           content_hash == HashContent(call.source)
           result == ParseWithLanguage(call.source, call.path, call.lang)
       IN  IF adapterOk
           THEN /\ inFlight' = [inFlight EXCEPT ![t].result = <<result>>]
                /\ lastComputed' = [lastComputed EXCEPT ![content_hash] = <<result>>]
                /\ produced' = [produced EXCEPT ![content_hash] = @ \cup {result}]
                /\ UNCHANGED <<lastParse, firstRecord>>
           ELSE /\ Return(call.fn, call.source, call.path, call.wasCached, "TreeSitterError",
                          <<>>, TRUE)
                /\ inFlight' = [inFlight EXCEPT ![t] = NoPending]
                /\ UNCHANGED <<lastComputed, produced>>
    /\ UNCHANGED <<cache, parseCalls, invalidated>>

\* manager.rs:109-111, 129-130: the caller stores the record its adapter
\* produced under the fingerprint, over whatever another caller has stored
\* there since the lookup, and returns it
InsertResult(t) ==
    /\ UNCHANGED notParse
    /\ inFlight[t] # NoPending
    /\ inFlight[t].result # <<>>
    /\ LET call == inFlight[t]
           content_hash == HashContent(call.source)
       IN  /\ cache' = CacheInsert(cache, content_hash, call.result[1])
           /\ Return(call.fn, call.source, call.path, call.wasCached, "Ok", call.result, TRUE)
    /\ inFlight' = [inFlight EXCEPT ![t] = NoPending]
    /\ UNCHANGED <<parseCalls, lastComputed, produced, invalidated>>

\* ParseCache::new (cache.rs:15-19): the moka cache is bounded by its
\* capacity; once it holds more entries, its housekeeping evicts one
Evict(content_hash) ==
    /\ UNCHANGED notParse
    /\ EntryCount(cache) > CACHE_CAPACITY
    /\ cache[content_hash] # <<>>
    /\ cache' = [cache EXCEPT ![content_hash] = <<>>]
    /\ UNCHANGED <<parseCalls, lastParse, firstRecord, lastComputed, produced, invalidated, inFlight>>

\* ParserManager::invalidate_cache (manager.rs:139-141)
InvalidateCache(content_hash) ==
    /\ UNCHANGED notParse
    /\ cache[content_hash] # <<>>
    /\ cache' = [cache EXCEPT ![content_hash] = <<>>]
    /\ invalidated' = TRUE
    /\ UNCHANGED <<parseCalls, lastParse, firstRecord, lastComputed, produced, inFlight>>

NextParse ==
    \/ \E t \in ParseCallers, source \in Contents, path \in SourcePaths :
          Parse(t, source, path)
    \/ \E t \in ParseCallers, source \in Contents, path \in LanguagePaths,
          lang \in ParseLanguages : ManagerParseWithLanguage(t, source, path, lang)
    \/ \E t \in ParseCallers, adapterOk \in BOOLEAN : RunAdapter(t, adapterOk)
    \/ \E t \in ParseCallers : InsertResult(t)
    \/ \E h \in Fingerprints : Evict(h)
    \/ \E h \in Fingerprints : InvalidateCache(h)

(***************************************************************************)
(* The call graph (drift-analysis/src/call_graph/builder.rs,                *)
(* resolution.rs, incremental.rs, traversal.rs).                           *)
(* A key `file::name` is the pair <<file, name>>; a qualified name         *)
(* `Class.method` is the pair <<class, method>>; an Option is <<>> or      *)
(* <<value>>.                                                              *)
(***************************************************************************)
RECURSIVE Concat(_)
Concat(seqs) == IF seqs = <<>> THEN <<>> ELSE Head(seqs) \o Concat(Tail(seqs))

RECURSIVE Filter(_, _)
\* the elements of s at the positions in keep, in order
Filter(s, keep) ==
    IF s = <<>> THEN <<>>
    ELSE LET rest == Filter(Tail(s), {i - 1 : i \in keep \ {1}})
         IN  IF 1 \in keep THEN <<Head(s)>> \o rest ELSE rest

\* format!("{}::{}", file, name)
Key(file, name) == <<file, name>>

\* format!("{}.{}", receiver, callee_name)
Qualified(receiver, name) == <<receiver, name>>

\* the files, the function names and the import sources of the records the
\* builds are given
GraphFiles == {"a.py", "b.py", "src/a.ts", "src/b.ts", "notes.txt"}

GraphNames == {"foo", "bar", "test_foo"}

ImportSources == {"b"}

\* whether the text of a key holds the text of an import source
KeyText(key, source) ==
    Contains(Letters(key[1]) \o <<":", ":">> \o Letters(key[2]), Letters(source))

\* the keys and sources of these records for which it does, computed once
KeysWithSource ==
    {t \in GraphFiles \X GraphNames \X ImportSources : KeyText(<<t[1], t[2]>>, t[3])}

\* key.contains(&import.source) (resolution.rs:96)
KeyContains(key, source) ==
    IF <<key[1], key[2], source>> \in GraphFiles \X GraphNames \X ImportSources
    THEN <<key[1], key[2], source>> \in KeysWithSource
    ELSE KeyText(key, source)

\* builder.rs:45-61: the nodes of Phase 1, in the order of the records and of
\* their functions
AllNodes(parse_results) ==
    Concat([i \in 1..Len(parse_results) |->
        [j \in 1..Len(parse_results[i].functions) |->
            LET pr == parse_results[i]
                f == pr.functions[j]
            IN  [file |-> pr.file, name |-> f.name,
                 qualified_name |-> f.qualified_name, line |-> f.line,
                 end_line |-> f.end_line, is_entry_point |-> FALSE,
                 is_exported |-> f.is_exported]]])

\* CallGraph::add_function for every node of Phase 1 (builder.rs:63-65): the
\* positions of all_nodes that become nodes of the graph
StoredPositions(all_nodes, policy) ==
    IF policy = "keep_first"
    THEN {i \in 1..Len(all_nodes) :
            \A j \in 1..(i - 1) :
                Key(all_nodes[j].file, all_nodes[j].name)
                    # Key(all_nodes[i].file, all_nodes[i].name)}
    ELSE 1..Len(all_nodes)

\* CallGraph::get_node after Phase 1: the node a key stands for (0: none)
NodeIndexOf(nodes, policy, key) ==
    LET at == {i \in 1..Len(nodes) : Key(nodes[i].file, nodes[i].name) = key}
    IN  IF at = {} THEN 0
        ELSE IF policy = "keep_first"
        THEN CHOOSE i \in at : \A j \in at : i <= j
        ELSE CHOOSE i \in at : \A j \in at : i >= j

\* builder.rs:68-83: name -> [keys]
NameIndex(parse_results, name) ==
    Concat([i \in 1..Len(parse_results) |->
        LET pr == parse_results[i]
        IN  Filter([j \in 1..Len(pr.functions) |-> Key(pr.file, pr.functions[j].name)],
                   {j \in 1..Len(pr.functions) : pr.functions[j].name = name})])

\* builder.rs:76-78: qualified name -> key, the last insert winning
QualifiedIndex(parse_results, qn) ==
    LET keys == Concat([i \in 1..Len(parse_results) |->
            LET pr == parse_results[i]
            IN  Filter([j \in 1..Len(pr.functions) |-> Key(pr.file, pr.functions[j].name)],
                       {j \in 1..Len(pr.functions) :
                            pr.functions[j].qualified_name = <<qn>>})])
    IN  IF keys = <<>> THEN <<>> ELSE <<keys[Len(keys)]>>

\* builder.rs:79-81: exported name -> [keys]
ExportIndex(parse_results, name) ==
    Concat([i \in 1..Len(parse_results) |->
        LET pr == parse_results[i]
        IN  Filter([j \in 1..Len(pr.functions) |-> Key(pr.file, pr.functions[j].name)],
                   {j \in 1..Len(pr.functions) :
                        pr.functions[j].name = name /\ pr.functions[j].is_exported})])

\* resolve_same_file (resolution.rs:51-64)
ResolveSameFile(call_site, caller_file, parse_results) ==
    LET keys == NameIndex(parse_results, call_site.callee_name)
        same_file_key == Key(caller_file, call_site.callee_name)
    IN  IF \E i \in 1..Len(keys) : keys[i] = same_file_key
        THEN <<same_file_key>> ELSE <<>>

\* resolve_method_call (resolution.rs:67-78)
ResolveMethodCall(call_site, parse_results) ==
    IF call_site.receiver # <<>>
    THEN QualifiedIndex(parse_results,
                        Qualified(call_site.receiver[1], call_site.callee_name))
    ELSE <<>>

\* resolution.rs:93-102: the candidates of one matching specifier
ImportCandidate(keys, source) ==
    LET hits == {i \in 1..Len(keys) : KeyContains(keys[i], source)}
    IN  IF hits # {} THEN <<keys[CHOOSE i \in hits : \A j \in hits : i <= j]>>
        ELSE IF keys # <<>> THEN <<keys[1]>>
        ELSE <<>>

\* resolve_import_based (resolution.rs:81-107): each import has one specifier
\* here; the first specifier whose effective name is the callee and whose
\* name is a known function decides
ResolveImportBased(call_site, imports, parse_results) ==
    LET matching == {i \in 1..Len(imports) :
            /\ (IF imports[i].alias # <<>> THEN imports[i].alias[1]
                ELSE imports[i].name) = call_site.callee_name
            /\ NameIndex(parse_results, imports[i].name) # <<>>}
    IN  IF matching = {} THEN <<>>
        ELSE LET i == CHOOSE k \in matching : \A j \in matching : k <= j
             IN  ImportCandidate(NameIndex(parse_results, imports[i].name),
                                 imports[i].source)

\* resolve_export_based (resolution.rs:110-121)
ResolveExportBased(call_site, parse_results) ==
    LET keys == ExportIndex(parse_results, call_site.callee_name)
    IN  IF Len(keys) = 1 THEN <<keys[1]>> ELSE <<>>

\* resolve_fuzzy (resolution.rs:124-135)
ResolveFuzzy(call_site, parse_results) ==
    LET keys == NameIndex(parse_results, call_site.callee_name)
    IN  IF Len(keys) = 1 THEN <<keys[1]>> ELSE <<>>

\* the strategies with the fuzzy match tried first
StrategyOrderFuzzyFirst ==
    <<"Fuzzy", "SameFile", "MethodCall", "ImportBased", "ExportBased">>

\* the five strategies in the order resolve_call tries them
StrategyOrder == <<"SameFile", "MethodCall", "ImportBased", "ExportBased", "Fuzzy">>

\* what one strategy gives for a call site
Strategy(s, call_site, caller_file, imports, parse_results) ==
    CASE s = "SameFile" -> ResolveSameFile(call_site, caller_file, parse_results)
      [] s = "MethodCall" -> ResolveMethodCall(call_site, parse_results)
      [] s = "ImportBased" -> ResolveImportBased(call_site, imports, parse_results)
      [] s = "ExportBased" -> ResolveExportBased(call_site, parse_results)
      [] OTHER -> ResolveFuzzy(call_site, parse_results)

\* resolve_call (resolution.rs:14-48): <<>> or <<[key, resolution]>>
ResolveCall(call_site, caller_file, imports, parse_results) ==
    LET hit == {k \in 1..Len(StrategyOrder) :
                  Strategy(StrategyOrder[k], call_site, caller_file, imports,
                           parse_results) # <<>>}
    IN  IF hit = {} THEN <<>>
        ELSE LET k == CHOOSE x \in hit : \A y \in hit : x <= y
             IN  <<[key |-> Strategy(StrategyOrder[k], call_site, caller_file,
                                     imports, parse_results)[1],
                    resolution |-> StrategyOrder[k]]>>

\* an update that keeps the graph it holds after the removals
RebuildKeepsHeld(held, all_results, policy) == held

\* builder.rs:87-100: the (caller_key, call site, record) entries of Phase 2:
\* for every record and every function of it, in order, the call sites
\* whose line lies in the function's range, in the order of pr.call_sites
CallEntries(parse_results) ==
    Concat([i \in 1..Len(parse_results) |->
        LET pr == parse_results[i]
        IN  Concat([j \in 1..Len(pr.functions) |->
                LET func == pr.functions[j]
                    inside == {c \in 1..Len(pr.call_sites) :
                                 /\ pr.call_sites[c].line >= func.line
                                 /\ pr.call_sites[c].line <= func.end_line}
                IN  Filter([c \in 1..Len(pr.call_sites) |->
                               [caller_key |-> Key(pr.file, func.name),
                                call_site |-> pr.call_sites[c],
                                record |-> i]],
                           inside)])])

\* builder.rs:105-127: the edge an entry gives, <<>> when the caller is not a
\* node, the call does not resolve or the callee is not a node
EdgeOf(entry, nodes, policy, parse_results) ==
    LET pr == parse_results[entry.record]
        caller_idx == NodeIndexOf(nodes, policy, entry.caller_key)
        r == ResolveCall(entry.call_site, pr.file, pr.imports, parse_results)
    IN  IF caller_idx = 0 \/ r = <<>> THEN <<>>
        ELSE LET callee_idx == NodeIndexOf(nodes, policy, r[1].key)
             IN  IF callee_idx = 0 THEN <<>>
                 ELSE <<[from |-> caller_idx, to |-> callee_idx,
                         resolution |-> r[1].resolution,
                         call_site_line |-> entry.call_site.line,
                         call_site |-> entry.call_site,
                         caller_file |-> pr.file]>>

\* traversal.rs:120-121: the file is a main / index / app / server file
IsStartFile(file) ==
    \E part \in {"main.", "index.", "app.", "server."} :
        Contains(ToLowercase(Letters(file)), Letters(part))

\* traversal.rs:129-133: the name starts as the name of a test does
IsTestName(name) ==
    \E prefix \in {"test_", "test", "it_", "spec_"} :
        StartsWith(ToLowercase(Letters(name)), Letters(prefix))

\* the start files and the test names among those of the records, computed
\* once
StartFiles == {file \in GraphFiles : IsStartFile(file)}

TestNames == {name \in GraphNames : IsTestName(name)}

\* is_entry_point (traversal.rs:113-142): exported functions, the start
\* functions of main / index / app / server files, test functions and CLI
\* entry points
IsEntryPoint(node) ==
    \/ node.is_exported
    \/ /\ node.name \in {"main", "run", "start", "init", "bootstrap"}
       /\ IF node.file \in GraphFiles THEN node.file \in StartFiles
          ELSE IsStartFile(node.file)
    \/ IF node.name \in GraphNames THEN node.name \in TestNames
       ELSE IsTestName(node.name)
    \/ node.name \in {"main", "cli", "run_cli", "parse_args"}

\* traversal.rs:82-97: the keys of the functions that carry a decorator
\* whose name tells of a route handler
RouteHandlers(parse_results) ==
    {Key(parse_results[i].file, parse_results[i].functions[j].name) :
        <<i, j>> \in {ij \in (1..Len(parse_results)) \X (1..(MaxFunctions + 1)) :
            /\ ij[2] <= Len(parse_results[ij[1]].functions)
            /\ \E d \in 1..Len(parse_results[ij[1]].functions[ij[2]].decorators) :
                  LET dec_lower ==
                          ToLowercase(Letters(parse_results[ij[1]].functions[ij[2]].decorators[d]))
                  IN \E part \in {"route", "get", "post", "put", "delete", "patch",
                                  "controller", "api", "endpoint"} :
                        Contains(dec_lower, Letters(part))}}

\* mark_entry_points (traversal.rs:80-110)
MarkEntryPoints(nodes, parse_results) ==
    [i \in 1..Len(nodes) |->
        [nodes[i] EXCEPT !.is_entry_point =
            \/ nodes[i].is_entry_point
            \/ IsEntryPoint(nodes[i])
            \/ Key(nodes[i].file, nodes[i].name) \in RouteHandlers(parse_results)]]

\* CallGraph::new
EmptyGraph == [nodes |-> <<>>, live |-> {}, edges |-> <<>>]

\* CallGraphBuilder::build (builder.rs:39-150)
Build(parse_results, policy) ==
    LET all_nodes == AllNodes(parse_results)
        nodes == Filter(all_nodes, StoredPositions(all_nodes, policy))
        entries == CallEntries(parse_results)
    IN  [nodes |-> MarkEntryPoints(nodes, parse_results),
         live |-> 1..Len(nodes),
         edges |-> Concat([e \in 1..Len(entries) |->
                              EdgeOf(entries[e], nodes, policy, parse_results)])]

\* CallGraph::remove_file: the nodes of the file and their edges leave
RemoveFile(g, path) ==
    LET gone == {i \in g.live : g.nodes[i].file = path}
    IN  [g EXCEPT !.live = g.live \ gone,
                  !.edges = Filter(g.edges,
                                   {e \in 1..Len(g.edges) :
                                       g.edges[e].from \notin gone /\ g.edges[e].to \notin gone})]

RECURSIVE RemoveFiles(_, _)
RemoveFiles(g, paths) ==
    IF paths = <<>> THEN g ELSE RemoveFiles(RemoveFile(g, Head(paths)), Tail(paths))

\* incremental.rs:63-66: the graph is rebuilt from all_results
Rebuild(held, all_results, policy) == Build(all_results, policy)

InitGraph ==
    /\ graph = EmptyGraph
    /\ lastResults = <<>>
    /\ graphCalls = 0
    /\ nodePolicy = "none"
    /\ lastOp = "none"

\* IncrementalCallGraph::full_build (incremental.rs:31-38)
FullBuild(parse_results, policy) ==
    /\ UNCHANGED notGraph
    /\ graphCalls < MaxGraphCalls
    /\ nodePolicy \in {"none", policy}
    /\ nodePolicy' = policy
    /\ graphCalls' = graphCalls + 1
    /\ graph' = Build(parse_results, policy)
    /\ lastResults' = parse_results
    /\ lastOp' = "full_build"

\* IncrementalCallGraph::update (incremental.rs:46-68)
Update(added, modified, removed, all_results, policy) ==
    /\ UNCHANGED notGraph
    /\ graphCalls < MaxGraphCalls
    /\ nodePolicy \in {"none", policy}
    /\ nodePolicy' = policy
    /\ graphCalls' = graphCalls + 1
    /\ LET afterRemoved == RemoveFiles(graph, removed)
           afterModified ==
               RemoveFiles(afterRemoved, [i \in 1..Len(modified) |-> modified[i].file])
       IN  graph' = Rebuild(afterModified, all_results, policy)
    /\ lastResults' = all_results
    /\ lastOp' = "update"

(***************************************************************************)
(* The structural records the builds are given.  build takes any records:  *)
(* the functions of a record may share a name and may be nested, and its   *)
(* call sites come in any order (the adapter lists them in source order).  *)
(***************************************************************************)
FunctionNames == {"foo", "bar"}

\* "plain": neither exported nor qualified; "exported"; "method": K.name
FunctionKinds == {"plain", "exported", "method"}

MkFunction(name, kind, line, end_line) ==
    [name |-> name,
     qualified_name |-> IF kind = "method" THEN <<Qualified("K", name)>> ELSE <<>>,
     line |-> line, end_line |-> end_line, is_exported |-> (kind = "exported"),
     decorators |-> <<>>]

\* a function with decorators
Decorated(function, decorators) == [function EXCEPT !.decorators = decorators]

\* how the functions of a file lie: one after the other, or the later ones
\* inside the first
Layouts == {"siblings", "nested"}

\* the first line of the j-th function: 3j-2 among siblings; a nested
\* function starts on the line after that of the function before it
StartLine(layout, j) == IF layout = "nested" /\ j > 1 THEN 3 * j - 4 ELSE 3 * j - 2

\* the last line of the j-th of k functions: 3j among siblings; the first
\* function ends on line 3k when it encloses the others, and a nested
\* function spans two lines
EndLine(layout, j, k) ==
    IF layout = "nested" THEN (IF j = 1 THEN 3 * k ELSE 3 * j - 3) ELSE 3 * j

\* the functions of a file, outer before inner as the adapter lists them
FunctionSeqs(n, allowed) ==
    UNION {{[j \in 1..k |->
                MkFunction(names[j], kinds[j], StartLine(layout, j), EndLine(layout, j, k))] :
                names \in [1..k -> FunctionNames], kinds \in [1..k -> allowed],
                layout \in Layouts} :
           k \in 0..n}

\* the lines of the call sites: line 2 lies in the first function and in a
\* second one nested in it, line 5 in a second function that follows the
\* first and in a first one that encloses the second
CallLines == {2, 5}

\* foo(), bar() and K.bar() on each of the lines
CallSiteOptions ==
    {[callee_name |-> t[1], receiver |-> t[2], line |-> ln] :
        t \in {<<"foo", <<>> >>, <<"bar", <<>> >>, <<"bar", <<"K">> >>},
        ln \in CallLines}

\* the call sites of a record, in any order
CallSiteSeqs(n) == UNION {[1..k -> CallSiteOptions] : k \in 0..n}

\* no import, `from b import foo`, `from b import bar`, `from b import bar as foo`
ImportSeqs ==
    {<<>>, <<[source |-> "b", name |-> "foo", alias |-> <<>>]>>,
     <<[source |-> "b", name |-> "bar", alias |-> <<>>]>>,
     <<[source |-> "b", name |-> "bar", alias |-> <<"foo">>]>>}

MkRecord(file, functions, call_sites, imports) ==
    [file |-> file, functions |-> functions, call_sites |-> call_sites,
     imports |-> imports]

\* languages/mod.rs:72-75, 270-300: the functions the adapter extracts from
\* the bytes: neither qualified nor exported, in source order
ExtractStructure(source) ==
    IF source % 2 = 0
    THEN <<MkFunction("foo", "plain", 1, 3)>>
    ELSE <<MkFunction("foo", "plain", 1, 3), MkFunction("bar", "plain", 4, 6)>>

\* the structural record a parse returned, as the builder reads it
RecordOf(rec) == MkRecord(rec.file, ExtractStructure(rec.structure), <<>>, <<>>)

\* a.py with its functions, call sites and import, then b.py with at most
\* one function; the calls are made from a.py, where an export changes no
\* resolution
BuildInput(fa, cs, im, fb) ==
    <<MkRecord("a.py", fa, cs, im), MkRecord("b.py", fb, <<>>, <<>>)>>

\* the versions of a file an incremental sequence moves between
FileVersions(file) ==
    {MkRecord(file, <<MkFunction("foo", "exported", 1, 3)>>,
              <<[callee_name |-> "bar", receiver |-> <<>>, line |-> 2]>>, <<>>),
     MkRecord(file, <<MkFunction("bar", "plain", 1, 3), MkFunction("foo", "plain", 4, 6)>>,
              <<[callee_name |-> "foo", receiver |-> <<>>, line |-> 2]>>, <<>>),
     MkRecord(file, <<MkFunction("bar", "method", 1, 3)>>,
              <<[callee_name |-> "bar", receiver |-> <<"K">>, line |-> 2]>>, <<>>),
     MkRecord(file, <<Decorated(MkFunction("bar", "plain", 1, 3), <<"app.route">>),
                      MkFunction("test_foo", "plain", 4, 6)>>,
              <<[callee_name |-> "bar", receiver |-> <<>>, line |-> 5]>>, <<>>)}

\* the record sets of an incremental sequence: each file absent or in one of
\* its versions
IncrementalInputs ==
    {Concat(<<a, b>>) : a \in {<<>>} \cup {<<v>> : v \in FileVersions("a.py")},
                        b \in {<<>>} \cup {<<v>> : v \in FileVersions("b.py")}}

NodePolicies == {"keep_first", "add_again"}

\* one build of each input
NextBuild ==
    /\ graphCalls = 0
    /\ \E fa \in FunctionSeqs(MaxFunctions, {"plain", "method"}),
          cs \in CallSiteSeqs(MaxCallSites), im \in ImportSeqs,
          fb \in FunctionSeqs(1, FunctionKinds), policy \in NodePolicies :
          FullBuild(BuildInput(fa, cs, im, fb), policy)

\* sequences of full builds and updates
NextIncremental ==
    \/ \E rs \in IncrementalInputs, policy \in NodePolicies : FullBuild(rs, policy)
    \/ \E rs \in IncrementalInputs, policy \in NodePolicies,
          modifiedFiles, removedFiles \in SUBSET {"a.py", "b.py"} :
          /\ modifiedFiles \cap removedFiles = {}
          /\ \A f \in modifiedFiles : \E i \in 1..Len(rs) : rs[i].file = f
          /\ Update(<<>>, Filter(rs, {i \in 1..Len(rs) : rs[i].file \in modifiedFiles}),
                    Filter(<<"a.py", "b.py">>, {i \in 1..2 : <<"a.py", "b.py">>[i] \in removedFiles}),
                    rs, policy)

(***************************************************************************)
(* bfs_forward / bfs_inverse (drift-analysis/src/call_graph/traversal.rs). *)
(* A traversed graph is the sequence of its edges <<from, to>> over        *)
(* BfsNodes, in the order they were added.                                 *)
(***************************************************************************)
BfsNodes == 1..NBfsNodes

RECURSIVE NeighborsOutgoing(_, _, _)
\* neighbours along the outgoing edges, whatever the direction asked
NeighborsOutgoing(edges, node, direction) ==
    IF edges = <<>> THEN <<>>
    ELSE LET e == edges[Len(edges)]
             rest == NeighborsOutgoing(SubSeq(edges, 1, Len(edges) - 1), node, direction)
         IN  IF e[1] = node THEN <<e[2]>> \o rest ELSE rest

RECURSIVE NeighborsDirected(_, _, _)
\* graph.graph.neighbors_directed(node, direction) (traversal.rs:48): petgraph
\* links every new edge at the head of the adjacency lists of its two ends,
\* so the neighbours come newest edge first, one per edge
NeighborsDirected(edges, node, direction) ==
    IF edges = <<>> THEN <<>>
    ELSE LET e == edges[Len(edges)]
             rest == NeighborsDirected(SubSeq(edges, 1, Len(edges) - 1), node, direction)
         IN  IF direction = "Outgoing" /\ e[1] = node THEN <<e[2]>> \o rest
             ELSE IF direction = "Incoming" /\ e[2] = node THEN <<e[1]>> \o rest
             ELSE rest

RECURSIVE PushNeighbors(_, _, _, _)
\* the for loop over the neighbours (traversal.rs:48-52): [queue, visited]
PushNeighbors(neighbors, depth, queue, visited) ==
    IF neighbors = <<>> THEN [queue |-> queue, visited |-> visited]
    ELSE IF Head(neighbors) \in visited
    THEN PushNeighbors(Tail(neighbors), depth, queue, visited)
    ELSE PushNeighbors(Tail(neighbors), depth,
                       Append(queue, <<Head(neighbors), depth + 1>>),
                       visited \cup {Head(neighbors)})

RECURSIVE BfsLoop(_, _, _, _, _, _, _)
\* the while loop of bfs_directed (traversal.rs:37-53)
BfsLoop(edges, start, direction, max_depth, queue, visited, result) ==
    IF queue = <<>> THEN result
    ELSE LET node == Head(queue)[1]
             depth == Head(queue)[2]
             result1 == IF node # start THEN Append(result, node) ELSE result
         IN  IF max_depth # <<>> /\ depth >= max_depth[1]
             THEN BfsLoop(edges, start, direction, max_depth, Tail(queue), visited, result1)
             ELSE LET pushed == PushNeighbors(NeighborsDirected(edges, node, direction),
                                              depth, Tail(queue), visited)
                  IN  BfsLoop(edges, start, direction, max_depth,
                              pushed.queue, pushed.visited, result1)

\* bfs_directed (traversal.rs:24-56)
BfsDirected(edges, start, direction, max_depth) ==
    BfsLoop(edges, start, direction, max_depth, <<<<start, 0>>>>, {start}, <<>>)

\* bfs_forward (traversal.rs:14-16)
BfsForward(edges, start, max_depth) == BfsDirected(edges, start, "Outgoing", max_depth)

\* bfs_inverse (traversal.rs:19-21)
BfsInverse(edges, start, max_depth) == BfsDirected(edges, start, "Incoming", max_depth)

NoBfs == [edges |-> <<>>, start |-> 0, direction |-> "none", max_depth |-> <<>>]

InitTraverse ==
    /\ bfsCall = NoBfs
    /\ bfsResult = <<>>

\* a call of bfs_forward
CallBfsForward(edges, start, max_depth) ==
    /\ UNCHANGED notTraverse
    /\ bfsCall' = [edges |-> edges, start |-> start, direction |-> "Outgoing",
                   max_depth |-> max_depth]
    /\ bfsResult' = BfsForward(edges, start, max_depth)

\* a call of bfs_inverse
CallBfsInverse(edges, start, max_depth) ==
    /\ UNCHANGED notTraverse
    /\ bfsCall' = [edges |-> edges, start |-> start, direction |-> "Incoming",
                   max_depth |-> max_depth]
    /\ bfsResult' = BfsInverse(edges, start, max_depth)

\* None, or Some(d) for a depth up to the number of nodes
DepthOptions == {<<>>} \cup {<<d>> : d \in 0..NBfsNodes}

\* the edges of a graph in the order they were added, parallel edges and
\* self-loops included
EdgeSeqs == UNION {[1..k -> BfsNodes \X BfsNodes] : k \in 0..MaxBfsEdges}

\* one traversal of each graph, start and depth
NextTraverse ==
    \/ /\ bfsCall = NoBfs
       /\ \E edges \in EdgeSeqs, start \in BfsNodes,
             max_depth \in DepthOptions : CallBfsForward(edges, start, max_depth)
    \/ /\ bfsCall = NoBfs
       /\ \E edges \in EdgeSeqs, start \in BfsNodes,
             max_depth \in DepthOptions : CallBfsInverse(edges, start, max_depth)

(***************************************************************************)
(* Confidence scorer (patterns/confidence/scorer.rs, factors.rs).  The     *)
(* program computes in f64; the model computes the same expressions in     *)
(* exact fractions <<numerator, denominator>> with a positive denominator, *)
(* reduced after every operation.                                          *)
(***************************************************************************)
RECURSIVE Gcd(_, _)
Gcd(a, b) == IF b = 0 THEN a ELSE Gcd(b, a % b)

Abs(x) == IF x < 0 THEN -x ELSE x

Frac(n, d) ==
    LET g == Gcd(Abs(n), d) IN <<n \div g, d \div g>>

\* Sums and comparisons go through the least common denominator and
\* products cancel across first, so intermediate values stay small.
FAdd(x, y) ==
    LET g == Gcd(x[2], y[2])
    IN Frac(x[1] * (y[2] \div g) + y[1] * (x[2] \div g), (x[2] \div g) * y[2])

FNeg(x) == <<-x[1], x[2]>>

FSub(x, y) == FAdd(x, FNeg(y))

FMul(x, y) ==
    LET a == Frac(x[1], y[2])
        b == Frac(y[1], x[2])
    IN <<a[1] * b[1], a[2] * b[2]>>

\* for y > 0
FDiv(x, y) == FMul(x, <<y[2], y[1]>>)

FLe(x, y) ==
    LET g == Gcd(x[2], y[2])
    IN x[1] * (y[2] \div g) <= y[1] * (x[2] \div g)

FLt(x, y) == ~FLe(y, x)

FMax(x, y) == IF FLe(x, y) THEN y ELSE x

FMin(x, y) == IF FLe(x, y) THEN x ELSE y

FClamp(x, lo, hi) == FMax(lo, FMin(x, hi))

FInt(n) == <<n, 1>>

Zero == FInt(0)

One == FInt(1)

\* A value that is not finite (f64 NaN) is written with denominator 0.
NaN == <<0, 0>>

IsFinite(x) == x[2] # 0

WEIGHT_FREQUENCY == Frac(30, 100)

WEIGHT_CONSISTENCY == Frac(25, 100)

WEIGHT_AGE == Frac(10, 100)

WEIGHT_SPREAD == Frac(15, 100)

WEIGHT_MOMENTUM == Frac(20, 100)

MomentumDirections == {"Rising", "Stable", "Falling"}

\* factors.rs:86-92
ComputeFrequency(occurrences, total_locations) ==
    IF total_locations = 0 THEN Zero
    ELSE FClamp(Frac(occurrences, total_locations), Zero, One)

\* factors.rs:95-100
ComputeConsistency(variance) ==
    IF ~IsFinite(variance) THEN One
    ELSE IF FLt(variance, Zero) THEN One
    ELSE FClamp(FSub(One, variance), Zero, One)

\* factors.rs:103-116
ComputeAge(days_since_first_seen) ==
    IF days_since_first_seen = 0 THEN Frac(1, 10)
    ELSE IF days_since_first_seen >= 30 THEN One
    ELSE FAdd(Frac(1, 10),
              FMul(Frac(days_since_first_seen, 30), FSub(One, Frac(1, 10))))

\* factors.rs:119-125
ComputeSpread(file_count, total_files) ==
    IF total_files = 0 THEN Zero
    ELSE FClamp(Frac(file_count, total_files), Zero, One)

\* factors.rs:128-134
ComputeMomentum(direction) ==
    CASE direction = "Rising" -> Frac(8, 10)
      [] direction = "Stable" -> Frac(5, 10)
      [] direction = "Falling" -> Frac(2, 10)

\* factors.rs:45-53
ComputeFactors(input) ==
    [frequency |-> ComputeFrequency(input.occurrences, input.total_locations),
     consistency |-> ComputeConsistency(input.variance),
     age |-> ComputeAge(input.days_since_first_seen),
     spread |-> ComputeSpread(input.file_count, input.total_files),
     momentum |-> ComputeMomentum(input.momentum)]

\* factors.rs:56-63
WeightedScore(factors) ==
    FClamp(FAdd(FAdd(FAdd(FAdd(FMul(factors.frequency, WEIGHT_FREQUENCY),
                               FMul(factors.consistency, WEIGHT_CONSISTENCY)),
                          FMul(factors.age, WEIGHT_AGE)),
                     FMul(factors.spread, WEIGHT_SPREAD)),
                FMul(factors.momentum, WEIGHT_MOMENTUM)),
           Zero, One)

\* factors.rs:72-83
FactorsToAlphaBeta(factors, sample_size) ==
    LET score == WeightedScore(factors)
        n == FMax(FInt(sample_size), One)
        blend_weight == FMin(FDiv(n, FAdd(n, FInt(10))), One)
        alpha_contribution == FMul(FMul(score, blend_weight), n)
        beta_contribution == FMul(FMul(FSub(One, score), blend_weight), n)
    IN <<FMax(alpha_contribution, Zero), FMax(beta_contribution, Zero)>>

\* BetaPosterior::posterior_params (confidence/beta.rs), called at
\* scorer.rs:59: uniform prior plus successes and failures, for
\* successes <= total.
PosteriorParams(successes, total) ==
    <<FInt(1 + successes), FInt(1 + (total - successes))>>

\* BetaPosterior::posterior_mean (confidence/beta.rs), called at scorer.rs:116
PosteriorMean(alpha, beta) == FDiv(alpha, FAdd(alpha, beta))

\* ConfidenceTier::from_posterior_mean (confidence/types.rs), called at
\* scorer.rs:117
TierFromPosteriorMean(mean) ==
    IF FLe(Frac(85, 100), mean) THEN "Established"
    ELSE IF FLe(Frac(65, 100), mean) THEN "Emerging"
    ELSE IF FLe(Frac(40, 100), mean) THEN "Tentative"
    ELSE "Uncertain"

\* ConfidenceScore::from_params (confidence/types.rs), called at scorer.rs:83
FromParams(alpha, beta, momentum) ==
    [alpha |-> alpha, beta |-> beta,
     posterior_mean |-> PosteriorMean(alpha, beta),
     tier |-> TierFromPosteriorMean(PosteriorMean(alpha, beta)),
     momentum |-> momentum]

\* ScorerConfig of the scorer under check (scorer.rs:13-18)
ScorerConfig == [total_files |-> TotalFiles, default_age_days |-> 7]

\* scorer.rs:50-84
Score(pattern, momentum, days_since_first_seen) ==
    LET total_observations == ScorerConfig.total_files
        successes == pattern.file_spread
        base == PosteriorParams(successes, total_observations)
        factor_input ==
            [occurrences |-> pattern.location_count,
             total_locations |->
                 IF total_observations > 1 THEN total_observations ELSE 1,
             variance |-> IF ~IsFinite(pattern.confidence_stddev) THEN NaN
                          ELSE FMul(pattern.confidence_stddev,
                                    pattern.confidence_stddev),
             days_since_first_seen |-> days_since_first_seen,
             file_count |-> pattern.file_spread,
             total_files |-> ScorerConfig.total_files,
             momentum |-> momentum]
        factor_values == ComputeFactors(factor_input)
        adj == FactorsToAlphaBeta(factor_values, pattern.location_count)
        final_alpha == FAdd(base[1], adj[1])
        final_beta == FAdd(base[2], adj[2])
    IN FromParams(final_alpha, final_beta, momentum)

\* scorer.rs:87-98
ScoreBatch(patterns) ==
    [i \in DOMAIN patterns |->
        <<patterns[i].pattern_id,
          Score(patterns[i], "Stable", ScorerConfig.default_age_days)>>]

\* momentum::temporal_decay (confidence/momentum.rs), called at
\* scorer.rs:112.  The curve is 1.0 at day 0 and monotone non-increasing
\* towards a floor; for a later day the outcomes are the values such a
\* curve can take on the grid below.
DecayOutcomes(days_since_last_seen) ==
    IF days_since_last_seen = 0 THEN {One}
    ELSE {Frac(k, DecaySteps) : k \in 1..DecaySteps}

\* scorer.rs:101-123 with the tracker's direction and the decay value given
ScoreWithMomentum(pattern, direction, days_since_first_seen, decay) ==
    LET score == Score(pattern, direction, days_since_first_seen)
        decayed == FMul(score.alpha, decay)
    IN IF FLt(decay, One)
       THEN [alpha |-> decayed, beta |-> score.beta,
             posterior_mean |-> PosteriorMean(decayed, score.beta),
             tier |-> TierFromPosteriorMean(PosteriorMean(decayed, score.beta)),
             momentum |-> direction]
       ELSE [score EXCEPT !.momentum = direction]

PatternIds == {"style_a", "style_b"}

StddevOptions == {Zero, Frac(1, 2), FInt(2), NaN}

\* The fields of AggregatedPattern the scorer and the discoverer read
AggregatedPatterns ==
    [pattern_id : PatternIds, category : {"Structural"},
     location_count : 0..MaxLocations, file_spread : 0..TotalFiles,
     confidence_stddev : StddevOptions]

AgeOptions == {0, 15, 30}

LastSeenOptions == {0, 60}

NoScoreCall == [op |-> "none"]

InitScore ==
    /\ scoreCall = NoScoreCall
    /\ scoreResult = <<>>

CallScore(pattern, momentum, days_since_first_seen) ==
    /\ scoreCall' = [op |-> "score", pattern |-> pattern,
                     momentum |-> momentum, days |-> days_since_first_seen]
    /\ scoreResult' = <<Score(pattern, momentum, days_since_first_seen)>>
    /\ UNCHANGED notScore

CallScoreBatch(patterns) ==
    /\ scoreCall' = [op |-> "score_batch", patterns |-> patterns]
    /\ scoreResult' = [i \in DOMAIN patterns |-> ScoreBatch(patterns)[i][2]]
    /\ UNCHANGED notScore

CallScoreWithMomentum(pattern, direction, days_since_first_seen, days_since_last_seen, decay) ==
    /\ scoreCall' = [op |-> "score_with_momentum", pattern |-> pattern,
                     momentum |-> direction, days |-> days_since_first_seen,
                     days_since_last_seen |-> days_since_last_seen,
                     decay |-> decay]
    /\ scoreResult' = <<ScoreWithMomentum(pattern, direction,
                                          days_since_first_seen, decay)>>
    /\ UNCHANGED notScore

NextScore ==
    \/ /\ scoreCall = NoScoreCall
       /\ \E p \in AggregatedPatterns, m \in MomentumDirections,
             d \in AgeOptions : CallScore(p, m, d)
    \/ /\ scoreCall = NoScoreCall
       /\ \E p \in AggregatedPatterns, q \in AggregatedPatterns :
             \/ CallScoreBatch(<<p>>)
             \/ /\ p.pattern_id = "style_a" /\ q.pattern_id = "style_b"
                /\ q.confidence_stddev = Zero
                /\ CallScoreBatch(<<p, q>>)
    \/ /\ scoreCall = NoScoreCall
       /\ \E p \in AggregatedPatterns, m \in MomentumDirections,
             d \in AgeOptions, l \in LastSeenOptions :
             \E decay \in DecayOutcomes(l) :
                CallScoreWithMomentum(p, m, d, l, decay)

(***************************************************************************)
(* Convention discovery (patterns/learning/discovery.rs, types.rs).  The   *)
(* thresholds and single quotients of small counts are exact fractions;    *)
(* check_contested subtracts two quotients, where the rounding of f64      *)
(* decides at the threshold, and is computed digit by digit.               *)
(***************************************************************************)
\* types.rs:144-156
DefaultLearningConfig ==
    [min_occurrences |-> 3, dominance_threshold |-> Frac(60, 100),
     min_files |-> 2, universal_spread_threshold |-> Frac(80, 100),
     contested_threshold |-> Frac(15, 100)]

\* A configuration handed to with_config (discovery.rs:25-27) that lowers
\* the Universal spread threshold and widens the contested threshold.
CustomLearningConfig ==
    [DefaultLearningConfig EXCEPT !.universal_spread_threshold = Frac(1, 2),
                                  !.contested_threshold = Frac(1, 2)]

LearningConfigs == {DefaultLearningConfig, CustomLearningConfig}

\* ConfidenceScore::uniform_prior (confidence/types.rs), used at
\* discovery.rs:93 for a pattern without a score
UniformPrior == FromParams(One, One, "Stable")

\* discovery.rs:42-45 and 89-93: the map built from `scores` keeps the last
\* entry of a pattern id
ScoreFor(scores, pattern_id) ==
    LET hits == {i \in DOMAIN scores : scores[i][1] = pattern_id}
    IN IF hits = {} THEN UniformPrior
       ELSE scores[CHOOSE i \in hits : \A j \in hits : j <= i][2]

\* discovery.rs:50-57: positions of the patterns of one category, in order
CategoryGroup(patterns, category) ==
    {i \in DOMAIN patterns : patterns[i].category = category}

\* discovery.rs:69-72 and 174
RECURSIVE SumLocations(_, _)
SumLocations(patterns, group) ==
    IF group = {} THEN 0
    ELSE LET i == CHOOSE j \in group : TRUE
         IN patterns[i].location_count + SumLocations(patterns, group \ {i})

\* The shares check_contested compares are f64 values.  An f64 between 0
\* and 1 is written as its binary digits, the first weighing 1 and every
\* next one half of the one before; FixedLen digits after the first hold
\* the quotient of two counts and the difference of two quotients without
\* loss.
FixedLen == 8 * ChunkBits

RECURSIVE LongDivision(_, _, _, _)
\* the binary digits of r / d for r < d, ChunkBits of them a step, and
\* whether the division ended
LongDivision(r, d, steps, bits) ==
    IF steps = 0 THEN [bits |-> bits, exact |-> r = 0]
    ELSE LET q == (r * 2^ChunkBits) \div d
             chunk == [i \in 1..ChunkBits |-> (q \div 2^(ChunkBits - i)) % 2]
         IN  LongDivision((r * 2^ChunkBits) % d, d, steps - 1, bits \o chunk)

\* one unit added at digit i, the carry moving towards the first digit
AddAt(bits, i) ==
    LET zeros == {m \in 1..i : bits[m] = 0}
    IN  IF zeros = {} THEN bits
        ELSE LET stop == CHOOSE m \in zeros : \A z \in zeros : z <= m
             IN  [m \in DOMAIN bits |->
                    IF m = stop THEN 1
                    ELSE IF m > stop /\ m <= i THEN 0 ELSE bits[m]]

\* IEEE 754 round-to-nearest, ties to even, to MantissaBits significant
\* digits; `inexact` tells that digits beyond the given ones are not all zero
RoundToNearestEven(bits, inexact) ==
    LET ones == {i \in DOMAIN bits : bits[i] = 1}
    IN  IF ones = {} THEN bits
        ELSE LET lead == CHOOSE i \in ones : \A m \in ones : i <= m
                 last == lead + MantissaBits - 1
             IN  IF last >= Len(bits) THEN bits
                 ELSE LET kept == [i \in DOMAIN bits |-> IF i <= last THEN bits[i] ELSE 0]
                          rest == inexact \/ \E i \in (last + 2)..Len(bits) : bits[i] = 1
                          up == bits[last + 1] = 1 /\ (rest \/ bits[last] = 1)
                      IN  IF up THEN AddAt(kept, last) ELSE kept

\* `n as f64 / d as f64` for counts n <= d, and the f64 a decimal literal
\* n/d denotes
F64Quotient(n, d) ==
    LET q == LongDivision(n % d, d, FixedLen \div ChunkBits, <<n \div d>>)
    IN  RoundToNearestEven(q.bits, ~q.exact)

\* x <= y on f64 values
F64Le(x, y) ==
    \/ x = y
    \/ \E i \in DOMAIN x : x[i] < y[i] /\ \A m \in 1..(i - 1) : x[m] = y[m]

\* x - y for x >= y, digit by digit: a digit lends to the digits after it
\* when what follows it in x is less than what follows it in y
Subtract(x, y) ==
    [i \in DOMAIN x |->
        LET borrow == IF \E m \in (i + 1)..Len(x) :
                            /\ x[m] < y[m]
                            /\ \A l \in (i + 1)..(m - 1) : x[l] = y[l]
                      THEN 1 ELSE 0
        IN  (x[i] - y[i] - borrow + 2) % 2]

\* (x - y).abs() in f64
F64AbsDiff(x, y) ==
    IF F64Le(y, x) THEN RoundToNearestEven(Subtract(x, y), FALSE)
    ELSE RoundToNearestEven(Subtract(y, x), FALSE)

\* discovery.rs:179, 185-186: (my_ratio - other_ratio).abs() <= threshold
\* for the shares of two location counts in a total
SharesWithin(mine, other, total, threshold) ==
    F64Le(F64AbsDiff(F64Quotient(mine, total), F64Quotient(other, total)),
          F64Quotient(threshold[1], threshold[2]))

\* the location counts of the patterns handed to discover: two patterns of
\* a category draw theirs from LocationCounts, three from TripleCounts,
\* where 10, 7 and 3 give shares 0.15 apart
LocationCounts == {2, 3, MaxOccurrences}

TripleCounts == {3, 7, 10}

\* the comparisons these counts lead to, computed once
SharesCompared ==
    (LocationCounts \X LocationCounts \X {a + b : a, b \in LocationCounts})
    \cup {t \in TripleCounts \X TripleCounts \X (9..30) :
            t[3] - t[1] - t[2] \in TripleCounts}

SharesTable ==
    {<<threshold, t, SharesWithin(t[1], t[2], t[3], threshold)>> :
        threshold \in {Frac(15, 100), Frac(1, 2)}, t \in SharesCompared}

\* discovery.rs:164-192
CheckContested(config, patterns, k) ==
    LET group == CategoryGroup(patterns, patterns[k].category)
        total == SumLocations(patterns, group)
    IN IF total = 0 THEN FALSE
       ELSE LET mine == patterns[k].location_count
            IN \E o \in group :
                  /\ patterns[o].pattern_id # patterns[k].pattern_id
                  /\ LET other == patterns[o].location_count
                         threshold == config.contested_threshold
                         t == <<mine, other, total>>
                     IN IF <<threshold, t, TRUE>> \in SharesTable THEN TRUE
                        ELSE IF <<threshold, t, FALSE>> \in SharesTable THEN FALSE
                        ELSE SharesWithin(mine, other, total, threshold)

\* A classification that takes Universal from the spread alone.
ClassifyCategoryBySpread(config, spread_ratio, score, patterns, k) ==
    IF CheckContested(config, patterns, k) THEN "Contested"
    ELSE IF FLe(config.universal_spread_threshold, spread_ratio)
         THEN "Universal"
    ELSE IF score.momentum = "Rising" THEN "Emerging"
    ELSE IF score.momentum = "Falling" THEN "Legacy"
    ELSE "ProjectSpecific"

\* discovery.rs:127-159
ClassifyCategory(config, spread_ratio, score, patterns, k) ==
    IF CheckContested(config, patterns, k) THEN "Contested"
    ELSE IF /\ FLe(config.universal_spread_threshold, spread_ratio)
            /\ score.tier = "Established" THEN "Universal"
    ELSE IF score.momentum = "Rising" THEN "Emerging"
    ELSE IF score.momentum = "Falling" THEN "Legacy"
    ELSE "ProjectSpecific"

\* discovery.rs:69-78
Dominance(patterns, k) ==
    LET category_total ==
            SumLocations(patterns, CategoryGroup(patterns, patterns[k].category))
    IN IF category_total > 0
       THEN Frac(patterns[k].location_count, category_total) ELSE Zero

\* discovery.rs:96-100
SpreadRatio(pattern, total_files) ==
    IF total_files > 0 THEN Frac(pattern.file_spread, total_files) ELSE Zero

\* discovery.rs:60-86: the pattern at position k yields a convention
Qualifies(config, patterns, k) ==
    /\ ~(patterns[k].location_count < config.min_occurrences)
    /\ ~(patterns[k].file_spread < config.min_files)
    /\ \/ ~FLt(Dominance(patterns, k), config.dominance_threshold)
       \/ CheckContested(config, patterns, k)

\* discovery.rs:102-120
ConventionOf(config, patterns, scores, total_files, now, k) ==
    LET score == ScoreFor(scores, patterns[k].pattern_id)
    IN [id |-> <<"conv_", patterns[k].pattern_id>>,
        pattern_id |-> patterns[k].pattern_id,
        category |-> ClassifyCategory(config,
                        SpreadRatio(patterns[k], total_files), score,
                        patterns, k),
        scope |-> "Project",
        confidence_score |-> score,
        dominance_ratio |-> Dominance(patterns, k),
        discovery_date |-> now,
        last_seen |-> now,
        promotion_status |-> "Discovered"]

\* discovery.rs:59-123: positions of the patterns that yield a convention,
\* in input order
RECURSIVE QualifyingFrom(_, _, _)
QualifyingFrom(config, patterns, k) ==
    IF k > Len(patterns) THEN <<>>
    ELSE (IF Qualifies(config, patterns, k) THEN <<k>> ELSE <<>>)
         \o QualifyingFrom(config, patterns, k + 1)

\* discovery.rs:35-124
Discover(config, patterns, scores, total_files, now) ==
    LET ks == QualifyingFrom(config, patterns, 1)
    IN [i \in DOMAIN ks |->
           ConventionOf(config, patterns, scores, total_files, now, ks[i])]

PatternCategories == {"Structural", "Security"}

FileSpreads == {1, SpreadFiles - 2, SpreadFiles - 1}

\* The fields of AggregatedPattern that discover reads
DiscoveryPatterns ==
    [pattern_id : PatternIds, category : PatternCategories,
     location_count : LocationCounts, file_spread : FileSpreads,
     confidence_stddev : {Zero}]

\* One or two patterns of any kind, two Structural patterns followed by a
\* Security pattern, or three Structural patterns.
PatternSeqs ==
    {<<p>> : p \in DiscoveryPatterns}
    \cup {<<p, q>> : p \in DiscoveryPatterns, q \in DiscoveryPatterns}
    \cup {<<p, q, r>> :
            p \in {x \in DiscoveryPatterns :
                      x.pattern_id = "style_a" /\ x.category = "Structural"},
            q \in {x \in DiscoveryPatterns :
                      x.pattern_id = "style_b" /\ x.category = "Structural"},
            r \in {x \in DiscoveryPatterns : x.category = "Security"}}
    \cup {<<[pattern_id |-> "style_a", category |-> "Structural",
             location_count |-> a, file_spread |-> SpreadFiles - 1,
             confidence_stddev |-> Zero],
            [pattern_id |-> "style_b", category |-> "Structural",
             location_count |-> b, file_spread |-> SpreadFiles - 1,
             confidence_stddev |-> Zero],
            [pattern_id |-> "style_c", category |-> "Structural",
             location_count |-> c, file_spread |-> SpreadFiles - 1,
             confidence_stddev |-> Zero]>> :
            a \in TripleCounts, b \in TripleCounts, c \in TripleCounts}

\* Scores as built in the tests (discovery.rs:242, 271-272)
ScoreOptions ==
    {FromParams(FInt(90), FInt(10), "Stable"),
     FromParams(FInt(10), FInt(5), "Rising"),
     FromParams(FInt(10), FInt(5), "Falling")}

\* at most one score for each pattern id, in order of the ids
ScoreSeqs ==
    LET forA == {<<>>} \cup {<< <<"style_a", s>> >> : s \in ScoreOptions}
        forB == {<<>>, << <<"style_b", FromParams(FInt(90), FInt(10), "Stable")>> >>}
    IN {a \o b : a \in forA, b \in forB}

TotalFilesOptions == {0, SpreadFiles}

NoDiscoverCall == [op |-> "none"]

InitDiscover ==
    /\ discoverCall = NoDiscoverCall
    /\ conventions = <<>>
    /\ origin = <<>>

\* ConventionDiscoverer::new / with_config followed by discover
CallDiscover(config, patterns, scores, total_files) ==
    /\ discoverCall' = [op |-> "discover", config |-> config,
                        patterns |-> patterns, scores |-> scores,
                        total_files |-> total_files]
    /\ conventions' = Discover(config, patterns, scores, total_files, 1000)
    /\ origin' = QualifyingFrom(config, patterns, 1)
    /\ UNCHANGED notDiscover

NextDiscover ==
    /\ discoverCall = NoDiscoverCall
    /\ \E config \in LearningConfigs, patterns \in PatternSeqs,
          scores \in ScoreSeqs, total_files \in TotalFilesOptions :
          CallDiscover(config, patterns, scores, total_files)

(***************************************************************************)
(* Promotion (patterns/learning/promotion.rs).                             *)
(***************************************************************************)
ConfidenceTiers == {"Established", "Emerging", "Tentative", "Uncertain"}

\* A check that leaves out the status test of promotion.rs:29-31.
CheckPromotionAnyStatus(convention, config) ==
    /\ CASE config.min_tier = "Established" ->
                convention.confidence_score.tier = "Established"
         [] config.min_tier = "Emerging" ->
                convention.confidence_score.tier \in {"Established", "Emerging"}
         [] config.min_tier = "Tentative" ->
                convention.confidence_score.tier
                    \in {"Established", "Emerging", "Tentative"}
         [] config.min_tier = "Uncertain" -> TRUE
    /\ FLe(Frac(85, 100), convention.confidence_score.posterior_mean)

\* promotion.rs:28-54
CheckPromotion(convention, config) ==
    IF convention.promotion_status # "Discovered" THEN FALSE
    ELSE LET tier_ok ==
                 CASE config.min_tier = "Established" ->
                          convention.confidence_score.tier = "Established"
                   [] config.min_tier = "Emerging" ->
                          convention.confidence_score.tier
                              \in {"Established", "Emerging"}
                   [] config.min_tier = "Tentative" ->
                          convention.confidence_score.tier
                              \in {"Established", "Emerging", "Tentative"}
                   [] config.min_tier = "Uncertain" -> TRUE
         IN IF ~tier_ok THEN FALSE
            ELSE FLe(Frac(85, 100), convention.confidence_score.posterior_mean)

\* promotion.rs:57-66: the slice after the call and the count returned
PromoteBatch(cs, config) ==
    [conventions |->
        [i \in DOMAIN cs |->
            IF CheckPromotion(cs[i], config)
            THEN [cs[i] EXCEPT !.promotion_status = "Approved"]
            ELSE cs[i]],
     promoted |-> Cardinality({i \in DOMAIN cs : CheckPromotion(cs[i], config)})]

\* promotion.rs:11-25; min_files is not read by check_promotion
PromotionConfigs == [min_tier : ConfidenceTiers, min_files : {5}]

\* Scores given to discover for the conventions that are promoted later:
\* built by from_params, or with the public fields tier and posterior_mean
\* set apart from each other.
PromotionScores ==
    {FromParams(FInt(90), FInt(10), "Stable"),
     FromParams(FInt(10), FInt(5), "Stable"),
     [FromParams(FInt(90), FInt(10), "Stable") EXCEPT !.tier = "Tentative"],
     [FromParams(FInt(10), FInt(5), "Stable") EXCEPT !.tier = "Established"]}

\* One or two patterns that discover accepts, one per category; the first
\* is found in few files or in every file.
PromotionPatterns ==
    LET a(spread) == [pattern_id |-> "style_a", category |-> "Structural",
                      location_count |-> MaxOccurrences,
                      file_spread |-> spread, confidence_stddev |-> Zero]
        b == [pattern_id |-> "style_b", category |-> "Security",
              location_count |-> MaxOccurrences,
              file_spread |-> SpreadFiles - 1, confidence_stddev |-> Zero]
    IN {<<a(spread)>> : spread \in {SpreadFiles - 3, SpreadFiles}}
       \cup {<<a(spread), b>> : spread \in {SpreadFiles - 3, SpreadFiles}}

NoPromoteCall == [op |-> "none"]

InitPromote ==
    /\ store = <<>>
    /\ promoteCall = NoPromoteCall
    /\ promoteCalls = 0
    /\ sourcePatterns = <<>>

\* discovery.rs:35-124: the conventions of one discover call enter the store
EnterDiscovered(patterns, scores) ==
    /\ store = <<>>
    /\ promoteCall = NoPromoteCall
    /\ store' = Discover(DefaultLearningConfig, patterns, scores,
                         SpreadFiles, 1000)
    /\ promoteCall' = [op |-> "discover"]
    /\ sourcePatterns' = patterns
    /\ UNCHANGED promoteCalls
    /\ UNCHANGED notPromote

\* promotion.rs:57-66
CallPromoteBatch(config) ==
    /\ store # <<>>
    /\ promoteCalls < MaxPromoteCalls
    /\ store' = PromoteBatch(store, config).conventions
    /\ promoteCall' = [op |-> "promote_batch", config |-> config,
                       before |-> store,
                       returned |-> PromoteBatch(store, config).promoted]
    /\ promoteCalls' = promoteCalls + 1
    /\ UNCHANGED sourcePatterns
    /\ UNCHANGED notPromote

\* The owner of the conventions marks one of them Rejected or Expired
\* (types.rs:102-105; promotion_status is a public field, types.rs:28).
SetStatus(i, status) ==
    /\ i \in DOMAIN store
    /\ store[i].promotion_status = "Discovered"
    /\ status \in {"Rejected", "Expired"}
    /\ store' = [store EXCEPT ![i].promotion_status = status]
    /\ promoteCall' = [op |-> "set_status"]
    /\ UNCHANGED <<promoteCalls, sourcePatterns>>
    /\ UNCHANGED notPromote

NextPromote ==
    \/ \E patterns \in PromotionPatterns :
          \E sa \in PromotionScores, sb \in PromotionScores :
             EnterDiscovered(patterns, << <<"style_a", sa>>, <<"style_b", sb>> >>)
    \/ \E config \in PromotionConfigs : CallPromoteBatch(config)
    \/ \E i \in 1..2, status \in {"Rejected", "Expired"} : SetStatus(i, status)

(***************************************************************************)
(* Outlier detector (patterns/outliers/selector.rs, rule_based.rs).        *)
(* Values are confidences in tenths; result indexes count from 0 as in     *)
(* the program.                                                            *)
(***************************************************************************)
\* A selection that hands the sizes 25..29 to Grubbs.
SelectPrimaryMethodNoEsd(n) ==
    IF n >= 30 THEN "ZScore"
    ELSE IF n >= 10 THEN "Grubbs"
    ELSE "RuleBased"

\* selector.rs:93-103
SelectPrimaryMethod(n) ==
    IF n >= 30 THEN "ZScore"
    ELSE IF n >= 25 THEN "GeneralizedEsd"
    ELSE IF n >= 10 THEN "Grubbs"
    ELSE "RuleBased"

\* rule_based.rs:106-113
ZeroConfidenceRule ==
    [id |-> "zero_confidence", significance |-> "High"]

\* rule_based.rs:110: the check of the zero-confidence rule
RuleCheck(rule, val) == val <= 0

\* OutlierDetector::new (selector.rs:14-19)
DefaultRules == <<ZeroConfidenceRule>>

\* rule_based.rs:85-100 from position k on: the first matching rule of each
\* value gives one result
RECURSIVE RuleResultsFrom(_, _, _)
RuleResultsFrom(values, rules, k) ==
    IF k > Len(values) THEN <<>>
    ELSE LET hits == {j \in DOMAIN rules : RuleCheck(rules[j], values[k])}
         IN (IF hits = {} THEN <<>>
             ELSE << [index |-> k - 1, value |-> values[k],
                      significance |->
                          rules[CHOOSE j \in hits : \A h \in hits : j <= h].significance,
                      method |-> "RuleBased", is_outlier |-> TRUE] >>)
            \o RuleResultsFrom(values, rules, k + 1)

\* rule_based.rs:77-103
RuleBasedDetect(values, rules) ==
    IF values = <<>> \/ rules = <<>> THEN <<>>
    ELSE RuleResultsFrom(values, rules, 1)

\* selector.rs:66-70, 75-79, 83-87: append the results whose index is not
\* yet present
RECURSIVE MergeByIndex(_, _)
MergeByIndex(all_results, more) ==
    IF more = <<>> THEN all_results
    ELSE MergeByIndex(
            IF \E i \in DOMAIN all_results : all_results[i].index = Head(more).index
            THEN all_results ELSE Append(all_results, Head(more)),
            Tail(more))

\* OutlierConfig::default().min_sample_size (outliers/types.rs), read at
\* selector.rs:40
MinSampleSize == 10

\* selector.rs:37-90, with the results of the statistical stages
\* (zscore / grubbs / esd, iqr, mad) given
Detect(values, statistical, iqr_results, mad_results) ==
    LET n == Len(values)
    IN IF n < MinSampleSize THEN RuleBasedDetect(values, DefaultRules)
       ELSE LET primary == SelectPrimaryMethod(n)
                s0 == IF primary \in {"ZScore", "Grubbs", "GeneralizedEsd"}
                      THEN statistical ELSE <<>>
                s1 == IF n >= 30 THEN MergeByIndex(s0, iqr_results) ELSE s0
                s2 == MergeByIndex(s1, mad_results)
            IN MergeByIndex(s2, RuleBasedDetect(values, DefaultRules))

\* Results a statistical stage can return for the first two values: none,
\* or an outlier of low or of critical significance, in index order
StageOutcomes(values, method) ==
    LET one(k) == {<<>>} \cup
                  {<< [index |-> k - 1, value |-> values[k], significance |-> sg,
                       method |-> method, is_outlier |-> TRUE] >> :
                     sg \in {"Low", "Critical"}}
    IN {a \o b : a \in one(1), b \in one(2)}

\* Sample sizes on both sides of every threshold of the detector
SampleSizes == {MinSampleSize - 1, MinSampleSize, 25, 30}

\* n confidences: the first two drawn from below zero, zero and 0.9, the
\* others 0.9
ValueSeqs(n) ==
    {[i \in 1..n |-> IF i = 1 THEN a ELSE IF i = 2 THEN b ELSE 9] :
        a \in {-1, 0, 9}, b \in {-1, 0, 9}}

NoOutlierCall == [op |-> "none"]

InitOutlier ==
    /\ outlierCall = NoOutlierCall
    /\ outlierResult = <<>>

CallSelectPrimaryMethod(n) ==
    /\ outlierCall' = [op |-> "select_primary_method", n |-> n]
    /\ outlierResult' = <<SelectPrimaryMethod(n)>>
    /\ UNCHANGED notOutlier

CallDetect(values, statistical, iqr_results, mad_results) ==
    /\ outlierCall' = [op |-> "detect", values |-> values,
                       statistical |-> statistical, iqr |-> iqr_results,
                       mad |-> mad_results]
    /\ outlierResult' = Detect(values, statistical, iqr_results, mad_results)
    /\ UNCHANGED notOutlier

NextOutlier ==
    \/ /\ outlierCall = NoOutlierCall
       /\ \E n \in 0..MaxSampleSize : CallSelectPrimaryMethod(n)
    \/ /\ outlierCall = NoOutlierCall
       /\ \E n \in SampleSizes :
          \E values \in ValueSeqs(n) :
          \E statistical \in StageOutcomes(values, SelectPrimaryMethod(n)),
             iqr_results \in StageOutcomes(values, "Iqr"),
             mad_results \in StageOutcomes(values, "Mad") :
             CallDetect(values, statistical, iqr_results, mad_results)

(***************************************************************************)
(* Taint engine (graph/taint/intraprocedural.rs, registry.rs).  A string   *)
(* is the sequence of its characters.                                      *)
(***************************************************************************)
\* format!("{}.{}", receiver, callee_name) (intraprocedural.rs:79-83)
FullName(call) ==
    IF call.receiver # <<>>
    THEN Letters(call.receiver[1]) \o <<".">> \o Letters(call.callee_name)
    ELSE Letters(call.callee_name)

\* registry.rs:96-100, 105-109, 114-118: the first pattern of the list that
\* contains the expression or is contained in it, case ignored
MatchPattern(patterns, expression) ==
    LET expr_lower == ToLowercase(expression)
        hits == {i \in DOMAIN patterns :
                    LET pattern_lower == ToLowercase(patterns[i].pattern)
                    IN \/ Contains(expr_lower, pattern_lower)
                       \/ Contains(pattern_lower, expr_lower)}
    IN IF hits = {} THEN <<>>
       ELSE <<patterns[CHOOSE i \in hits : \A j \in hits : i <= j]>>

\* add_default_sources (registry.rs:136-154)
DefaultSources ==
    <<[pattern |-> Letters("req.query"), source_type |-> "UserInput"],
      [pattern |-> Letters("req.body"), source_type |-> "UserInput"],
      [pattern |-> Letters("req.params"), source_type |-> "UserInput"],
      [pattern |-> Letters("req.headers"), source_type |-> "UserInput"],
      [pattern |-> Letters("request.GET"), source_type |-> "UserInput"],
      [pattern |-> Letters("request.POST"), source_type |-> "UserInput"],
      [pattern |-> Letters("request.data"), source_type |-> "UserInput"],
      [pattern |-> Letters("request.json"), source_type |-> "UserInput"],
      [pattern |-> Letters("request.args"), source_type |-> "UserInput"],
      [pattern |-> Letters("request.form"), source_type |-> "UserInput"],
      [pattern |-> Letters("request.files"), source_type |-> "UserInput"],
      [pattern |-> Letters("getParameter"), source_type |-> "UserInput"],
      [pattern |-> Letters("getQueryString"), source_type |-> "UserInput"],
      [pattern |-> Letters("getHeader"), source_type |-> "UserInput"],
      [pattern |-> Letters("HttpContext.Request"), source_type |-> "UserInput"],
      [pattern |-> Letters("Request.Query"), source_type |-> "UserInput"],
      [pattern |-> Letters("Request.Form"), source_type |-> "UserInput"],
      [pattern |-> Letters("params"), source_type |-> "UserInput"],
      [pattern |-> Letters("user_input"), source_type |-> "UserInput"],
      [pattern |-> Letters("stdin"), source_type |-> "UserInput"],
      [pattern |-> Letters("argv"), source_type |-> "UserInput"],
      [pattern |-> Letters("process.env"), source_type |-> "UserInput"],
      [pattern |-> Letters("os.environ"), source_type |-> "UserInput"],
      [pattern |-> Letters("System.getenv"), source_type |-> "UserInput"]>>

\* add_default_sinks (registry.rs:156-205)
DefaultSinks ==
    <<[pattern |-> Letters("db.query"), sink_type |-> "SqlQuery",
       required_sanitizers |-> <<"SqlParameterize">>],
      [pattern |-> Letters("db.execute"), sink_type |-> "SqlQuery",
       required_sanitizers |-> <<"SqlParameterize">>],
      [pattern |-> Letters("cursor.execute"), sink_type |-> "SqlQuery",
       required_sanitizers |-> <<"SqlParameterize">>],
      [pattern |-> Letters("connection.query"), sink_type |-> "SqlQuery",
       required_sanitizers |-> <<"SqlParameterize">>],
      [pattern |-> Letters("raw_sql"), sink_type |-> "SqlQuery",
       required_sanitizers |-> <<"SqlParameterize">>],
      [pattern |-> Letters("exec"), sink_type |-> "OsCommand",
       required_sanitizers |-> <<"ShellEscape">>],
      [pattern |-> Letters("execSync"), sink_type |-> "OsCommand",
       required_sanitizers |-> <<"ShellEscape">>],
      [pattern |-> Letters("spawn"), sink_type |-> "OsCommand",
       required_sanitizers |-> <<"ShellEscape">>],
      [pattern |-> Letters("system"), sink_type |-> "OsCommand",
       required_sanitizers |-> <<"ShellEscape">>],
      [pattern |-> Letters("popen"), sink_type |-> "OsCommand",
       required_sanitizers |-> <<"ShellEscape">>],
      [pattern |-> Letters("subprocess.run"), sink_type |-> "OsCommand",
       required_sanitizers |-> <<"ShellEscape">>],
      [pattern |-> Letters("subprocess.call"), sink_type |-> "OsCommand",
       required_sanitizers |-> <<"ShellEscape">>],
      [pattern |-> Letters("Runtime.exec"), sink_type |-> "OsCommand",
       required_sanitizers |-> <<"ShellEscape">>],
      [pattern |-> Letters("eval"), sink_type |-> "CodeExecution",
       required_sanitizers |-> <<"InputValidation">>],
      [pattern |-> Letters("Function"), sink_type |-> "CodeExecution",
       required_sanitizers |-> <<"InputValidation">>],
      [pattern |-> Letters("res.send"), sink_type |-> "HtmlOutput",
       required_sanitizers |-> <<"HtmlEscape">>],
      [pattern |-> Letters("res.write"), sink_type |-> "HtmlOutput",
       required_sanitizers |-> <<"HtmlEscape">>],
      [pattern |-> Letters("document.write"), sink_type |-> "HtmlOutput",
       required_sanitizers |-> <<"HtmlEscape">>],
      [pattern |-> Letters("innerHTML"), sink_type |-> "HtmlOutput",
       required_sanitizers |-> <<"HtmlEscape">>],
      [pattern |-> Letters("render"), sink_type |-> "TemplateRender",
       required_sanitizers |-> <<"HtmlEscape">>],
      [pattern |-> Letters("res.redirect"), sink_type |-> "HttpRedirect",
       required_sanitizers |-> <<"UrlEncode">>],
      [pattern |-> Letters("redirect"), sink_type |-> "HttpRedirect",
       required_sanitizers |-> <<"UrlEncode">>],
      [pattern |-> Letters("fetch"), sink_type |-> "HttpRequest",
       required_sanitizers |-> <<"UrlEncode">>],
      [pattern |-> Letters("http.get"), sink_type |-> "HttpRequest",
       required_sanitizers |-> <<"UrlEncode">>],
      [pattern |-> Letters("requests.get"), sink_type |-> "HttpRequest",
       required_sanitizers |-> <<"UrlEncode">>],
      [pattern |-> Letters("fs.readFile"), sink_type |-> "FileRead",
       required_sanitizers |-> <<"PathValidate">>],
      [pattern |-> Letters("fs.writeFile"), sink_type |-> "FileWrite",
       required_sanitizers |-> <<"PathValidate">>],
      [pattern |-> Letters("open"), sink_type |-> "FileRead",
       required_sanitizers |-> <<"PathValidate">>],
      [pattern |-> Letters("JSON.parse"), sink_type |-> "Deserialization",
       required_sanitizers |-> <<"InputValidation">>],
      [pattern |-> Letters("pickle.loads"), sink_type |-> "Deserialization",
       required_sanitizers |-> <<"InputValidation">>],
      [pattern |-> Letters("yaml.load"), sink_type |-> "Deserialization",
       required_sanitizers |-> <<"InputValidation">>],
      [pattern |-> Letters("console.log"), sink_type |-> "LogOutput",
       required_sanitizers |-> <<"InputValidation">>],
      [pattern |-> Letters("logger.info"), sink_type |-> "LogOutput",
       required_sanitizers |-> <<"InputValidation">>],
      [pattern |-> Letters("setHeader"), sink_type |-> "HeaderInjection",
       required_sanitizers |-> <<"InputValidation">>],
      [pattern |-> Letters("new RegExp"), sink_type |-> "RegexConstruction",
       required_sanitizers |-> <<"InputValidation">>],
      [pattern |-> Letters("xml.parse"), sink_type |-> "XmlParsing",
       required_sanitizers |-> <<"InputValidation">>],
      [pattern |-> Letters("upload"), sink_type |-> "FileUpload",
       required_sanitizers |-> <<"InputValidation">>]>>

\* add_default_sanitizers (registry.rs:207-238)
DefaultSanitizers ==
    <<[pattern |-> Letters("escapeHtml"), sanitizer_type |-> "HtmlEscape",
       protects_against |-> <<"HtmlOutput", "TemplateRender">>],
      [pattern |-> Letters("escape"), sanitizer_type |-> "HtmlEscape",
       protects_against |-> <<"HtmlOutput">>],
      [pattern |-> Letters("sanitize"), sanitizer_type |-> "HtmlEscape",
       protects_against |-> <<"HtmlOutput">>],
      [pattern |-> Letters("DOMPurify.sanitize"), sanitizer_type |-> "HtmlEscape",
       protects_against |-> <<"HtmlOutput">>],
      [pattern |-> Letters("xss"), sanitizer_type |-> "HtmlEscape",
       protects_against |-> <<"HtmlOutput">>],
      [pattern |-> Letters("parameterize"), sanitizer_type |-> "SqlParameterize",
       protects_against |-> <<"SqlQuery">>],
      [pattern |-> Letters("prepare"), sanitizer_type |-> "SqlParameterize",
       protects_against |-> <<"SqlQuery">>],
      [pattern |-> Letters("placeholder"), sanitizer_type |-> "SqlParameterize",
       protects_against |-> <<"SqlQuery">>],
      [pattern |-> Letters("shellescape"), sanitizer_type |-> "ShellEscape",
       protects_against |-> <<"OsCommand">>],
      [pattern |-> Letters("shlex.quote"), sanitizer_type |-> "ShellEscape",
       protects_against |-> <<"OsCommand">>],
      [pattern |-> Letters("escapeshellarg"), sanitizer_type |-> "ShellEscape",
       protects_against |-> <<"OsCommand">>],
      [pattern |-> Letters("path.resolve"), sanitizer_type |-> "PathValidate",
       protects_against |-> <<"FileRead", "FileWrite">>],
      [pattern |-> Letters("path.normalize"), sanitizer_type |-> "PathValidate",
       protects_against |-> <<"FileRead", "FileWrite">>],
      [pattern |-> Letters("realpath"), sanitizer_type |-> "PathValidate",
       protects_against |-> <<"FileRead", "FileWrite">>],
      [pattern |-> Letters("encodeURIComponent"), sanitizer_type |-> "UrlEncode",
       protects_against |-> <<"HttpRedirect", "HttpRequest">>],
      [pattern |-> Letters("encodeURI"), sanitizer_type |-> "UrlEncode",
       protects_against |-> <<"HttpRedirect">>],
      [pattern |-> Letters("parseInt"), sanitizer_type |-> "TypeCast",
       protects_against |-> <<"SqlQuery">>],
      [pattern |-> Letters("Number"), sanitizer_type |-> "TypeCast",
       protects_against |-> <<"SqlQuery">>],
      [pattern |-> Letters("validate"), sanitizer_type |-> "InputValidation",
       protects_against |-> <<"SqlQuery", "OsCommand", "HtmlOutput">>]>>

\* TaintRegistry::with_defaults (registry.rs:69-75)
Registry ==
    [sources |-> DefaultSources, sinks |-> DefaultSinks,
     sanitizers |-> DefaultSanitizers]

\* the names the analyzed functions are written with
TaintNames ==
    {Letters("req"), Letters("id"), Letters("db.query"), Letters("exec"),
     Letters("parameterize"), Letters("escape"), Letters("res.send"),
     Letters("req.getParameter")}

\* what the three lists answer for these names, computed once
Matched ==
    [list \in {"sources", "sinks", "sanitizers"} |->
        [expression \in TaintNames |-> MatchPattern(Registry[list], expression)]]

\* a match_* call on one of the lists
Match(list, expression) ==
    IF expression \in TaintNames THEN Matched[list][expression]
    ELSE MatchPattern(Registry[list], expression)

\* registry.rs:95-101
MatchSource(expression) == Match("sources", expression)

\* registry.rs:104-110
MatchSink(expression) == Match("sinks", expression)

\* registry.rs:113-119
MatchSanitizer(expression) == Match("sanitizers", expression)

\* intraprocedural.rs:212-221: positions of the call sites in the function's
\* line range, in the order of parse_result.call_sites
CallsInFunction(func, call_sites) ==
    Filter([i \in DOMAIN call_sites |-> i],
           {i \in DOMAIN call_sites :
               call_sites[i].line >= func.line /\ call_sites[i].line <= func.end_line})

\* intraprocedural.rs:72-73: stable sort of the positions by line
RECURSIVE SortByLine(_, _)
SortByLine(call_sites, positions) ==
    IF positions = <<>> THEN <<>>
    ELSE LET first == CHOOSE i \in DOMAIN positions :
                  \A j \in DOMAIN positions :
                      \/ call_sites[positions[i]].line < call_sites[positions[j]].line
                      \/ /\ call_sites[positions[i]].line = call_sites[positions[j]].line
                         /\ i <= j
         IN <<positions[first]>>
            \o SortByLine(call_sites,
                          Filter(positions, DOMAIN positions \ {first}))

\* intraprocedural.rs:160-209: the seeds of a function, parameters first
FindSourcesInFunction(func, call_sites) ==
    Filter([i \in DOMAIN func.parameters |->
               [line |-> func.line, expression |-> Letters(func.parameters[i])]],
           {i \in DOMAIN func.parameters :
               MatchSource(Letters(func.parameters[i])) # <<>>})
    \o Filter([i \in DOMAIN call_sites |->
                  [line |-> call_sites[i].line,
                   expression |-> FullName(call_sites[i])]],
              {i \in DOMAIN call_sites :
                  /\ call_sites[i].line >= func.line
                  /\ call_sites[i].line <= func.end_line
                  /\ MatchSource(FullName(call_sites[i])) # <<>>})

\* intraprocedural.rs:55-66: the keys of tainted_vars
TaintedVars(func, call_sites) ==
    {FindSourcesInFunction(func, call_sites)[i].expression :
        i \in DOMAIN FindSourcesInFunction(func, call_sites)}
    \cup {Letters(func.parameters[i]) : i \in
            {j \in DOMAIN func.parameters :
                MatchSource(Letters(func.parameters[j])) # <<>>}}

\* A reachability test that looks at the receiver only.
CheckTaintReachesSinkByReceiver(tainted_vars, sanitized_vars, call) ==
    /\ call.receiver # <<>>
    /\ Letters(call.receiver[1]) \in tainted_vars
    /\ Letters(call.receiver[1]) \notin sanitized_vars

\* intraprocedural.rs:224-239
CheckTaintReachesSink(tainted_vars, sanitized_vars, call) ==
    IF /\ call.receiver # <<>>
       /\ Letters(call.receiver[1]) \in tainted_vars
       /\ Letters(call.receiver[1]) \notin sanitized_vars
    THEN TRUE
    ELSE tainted_vars # {}

\* intraprocedural.rs:242-247
CheckSanitizedForSink(sanitizers, sink_type) ==
    \E i \in DOMAIN sanitizers :
        \E j \in DOMAIN sanitizers[i].labels_sanitized :
            sanitizers[i].labels_sanitized[j] = sink_type

\* intraprocedural.rs:77-154: the loop over the sorted calls from position k,
\* with the sanitized variables, the sanitizers applied and the flows so far
RECURSIVE TaintLoop(_, _, _, _, _, _, _)
TaintLoop(func, call_sites, sorted_calls, k, sanitized_vars, sanitizers_applied, flows) ==
    IF k > Len(sorted_calls) THEN flows
    ELSE
      LET call == call_sites[sorted_calls[k]]
          full_name == FullName(call)
          sanitizer == MatchSanitizer(full_name)
          sink == MatchSink(full_name)
          sources == FindSourcesInFunction(func, call_sites)
      IN IF sanitizer # <<>>
         THEN TaintLoop(func, call_sites, sorted_calls, k + 1,
                  IF call.receiver # <<>>
                  THEN sanitized_vars \cup {Letters(call.receiver[1])}
                  ELSE sanitized_vars,
                  Append(sanitizers_applied,
                         [line |-> call.line, expression |-> full_name,
                          sanitizer_type |-> sanitizer[1].sanitizer_type,
                          labels_sanitized |-> sanitizer[1].protects_against]),
                  flows)
         ELSE IF /\ sink # <<>>
                 /\ CheckTaintReachesSink(TaintedVars(func, call_sites),
                                          sanitized_vars, call)
         THEN LET is_sanitized ==
                      CheckSanitizedForSink(sanitizers_applied, sink[1].sink_type)
              IN TaintLoop(func, call_sites, sorted_calls, k + 1,
                     sanitized_vars, sanitizers_applied,
                     Append(flows,
                        [source |-> IF sources # <<>> THEN sources[1]
                                    ELSE [line |-> func.line,
                                          expression |-> <<"unknown_source">>],
                         sink |-> [line |-> call.line, expression |-> full_name,
                                   sink_type |-> sink[1].sink_type],
                         call_index |-> sorted_calls[k],
                         is_sanitized |-> is_sanitized,
                         sanitizers_applied |->
                             IF is_sanitized THEN sanitizers_applied ELSE <<>>,
                         confidence |-> IF is_sanitized THEN Frac(3, 10)
                                        ELSE Frac(85, 100)]))
         ELSE TaintLoop(func, call_sites, sorted_calls, k + 1,
                  sanitized_vars, sanitizers_applied, flows)

\* intraprocedural.rs:41-157
AnalyzeFunction(func, call_sites) ==
    TaintLoop(func, call_sites,
              SortByLine(call_sites, CallsInFunction(func, call_sites)),
              1, {}, <<>>, <<>>)

\* The analyzed function spans lines 1..6; its parameter list is empty or
\* holds one name
TaintFunctions ==
    {[name |-> "handler", line |-> 1, end_line |-> 6, parameters |-> ps] :
        ps \in {<<>>, <<"req">>, <<"id">>}}

\* Calls the function body can hold.  `in_args` tells that the call is
\* written inside the argument list of the call listed just before it.
TaintCallOptions ==
    {[callee_name |-> "query", receiver |-> <<"db">>],
     [callee_name |-> "exec", receiver |-> <<>>],
     [callee_name |-> "parameterize", receiver |-> <<>>],
     [callee_name |-> "escape", receiver |-> <<>>],
     [callee_name |-> "send", receiver |-> <<"res">>],
     [callee_name |-> "getParameter", receiver |-> <<"req">>]}

MkTaintCall(option, line, in_args) ==
    [callee_name |-> option.callee_name, receiver |-> option.receiver,
     line |-> line, in_args |-> in_args]

\* Call sites in the order the adapter lists them: by position in the
\* source, an enclosing call before the calls in its arguments
RECURSIVE TaintCallSeqs(_)
TaintCallSeqs(n) ==
    IF n = 0 THEN {<<>>}
    ELSE LET shorter == TaintCallSeqs(n - 1)
             calls == {MkTaintCall(o, l, a) :
                          o \in TaintCallOptions, l \in {2, 3, 9}, a \in BOOLEAN}
             fits(s, c) ==
                 /\ Len(s) = n - 1
                 /\ s # <<>> => s[Len(s)].line <= c.line
                 /\ c.in_args => (s # <<>> /\ s[Len(s)].line = c.line)
         IN shorter \cup
            {Append(p[1], p[2]) : p \in {q \in shorter \X calls : fits(q[1], q[2])}}

NoTaintCall == [op |-> "none"]

InitTaint ==
    /\ taintCall = NoTaintCall
    /\ taintFlows = <<>>

CallAnalyzeFunction(func, call_sites) ==
    /\ taintCall' = [op |-> "analyze_function", func |-> func,
                     call_sites |-> call_sites]
    /\ taintFlows' = AnalyzeFunction(func, call_sites)
    /\ UNCHANGED notTaint

NextTaint ==
    /\ taintCall = NoTaintCall
    /\ \E func \in TaintFunctions, call_sites \in TaintCallSeqs(MaxTaintCalls) :
          CallAnalyzeFunction(func, call_sites)

(***************************************************************************)
(* The aggregation pipeline: patterns/aggregation/pipeline.rs.  The        *)
(* grouper, the similarity module, the hierarchy builder, the incremental  *)
(* helpers and the reconciler are modelled from the specification of the   *)
(* seven phases.                                                           *)
(***************************************************************************)
AggFiles == {"a.ts", "b.ts"}

\* the pattern identifiers of the detectors, each with the category of its
\* detector
AggPatternIds == {"sql_concat", "sql_format", "string_concat"}

AggCategoryOf(id) == IF id = "string_concat" THEN "style" ELSE "security"

\* a detector-produced match (the fields the pipeline reads)
AggMatches ==
    {[file |-> f, line |-> l, pattern_id |-> id, category |-> AggCategoryOf(id)] :
        f \in AggFiles, l \in {1}, id \in AggPatternIds}

MatchSeqs == UNION {[1..n -> AggMatches] : n \in 0..MaxMatches}

\* the indexes of a set, in ascending order
AscendingSeq(S) ==
    [k \in 1..Cardinality(S) |->
        CHOOSE i \in S : Cardinality({j \in S : j < i}) = k - 1]

LocationOf(m) == [file |-> m.file, line |-> m.line]

\* phases 1-2: the matches of one pattern id, the same (file, line) collapsed
GroupLocations(matches, id) ==
    LET mine == {i \in 1..Len(matches) : matches[i].pattern_id = id}
        firsts == {i \in mine : \A j \in mine :
                       j < i => LocationOf(matches[j]) # LocationOf(matches[i])}
        order == AscendingSeq(firsts)
    IN [k \in 1..Len(order) |-> LocationOf(matches[order[k]])]

\* phase 5: the counters recomputed from the location list, dirty flag cleared
Reconcile(pattern) ==
    [pattern EXCEPT !.location_count = Len(pattern.locations),
                    !.is_dirty = FALSE]

\* PatternGrouper::group: one aggregated pattern per pattern id
PatternGrouperGroup(matches) ==
    LET ids == {matches[i].pattern_id : i \in 1..Len(matches)} IN
    [id \in ids |->
        LET first == CHOOSE i \in 1..Len(matches) :
                        /\ matches[i].pattern_id = id
                        /\ \A j \in 1..(i - 1) : matches[j].pattern_id # id
        IN [pattern_id |-> id,
            category |-> matches[first].category,
            locations |-> GroupLocations(matches, id),
            location_count |-> Len(GroupLocations(matches, id)),
            is_dirty |-> TRUE]]

\* similarity::location_key_set: the set of `file:line` keys of a pattern
LocationKeySet(pattern) ==
    {<<pattern.locations[i].file, pattern.locations[i].line>> :
        i \in 1..Len(pattern.locations)}

Jaccard(A, B) ==
    IF A \cup B = {} THEN Zero
    ELSE Frac(Cardinality(A \cap B), Cardinality(A \cup B))

\* MergeDecision::from_similarity
MergeDecisionFromSimilarity(sim) ==
    IF FLt(Frac(95, 100), sim) THEN "AutoMerge"
    ELSE IF FLt(Frac(90, 100), sim) THEN "SuggestMerge"
    ELSE IF FLe(Frac(85, 100), sim) THEN "FlagReview"
    ELSE "Separate"

MergeCandidate(a, b, sim) ==
    [pattern_a |-> a, pattern_b |-> b, similarity |-> sim,
     decision |-> MergeDecisionFromSimilarity(sim)]

\* an order of the pattern ids, standing for the order of the map's values
IdBefore(a, b) ==
    LET rank == [id \in AggPatternIds |->
                    IF id = "sql_concat" THEN 1
                    ELSE IF id = "sql_format" THEN 2 ELSE 3]
    IN rank[a] < rank[b]

\* similarity::find_duplicates: the exact path, pairs within one category
FindDuplicates(grouped, flag_threshold) ==
    {MergeCandidate(a, b, Jaccard(LocationKeySet(grouped[a]), LocationKeySet(grouped[b]))) :
        <<a, b>> \in {pr \in (DOMAIN grouped) \X (DOMAIN grouped) :
            /\ IdBefore(pr[1], pr[2])
            /\ grouped[pr[1]].category = grouped[pr[2]].category
            /\ FLe(flag_threshold,
                   Jaccard(LocationKeySet(grouped[pr[1]]), LocationKeySet(grouped[pr[2]])))}}

\* MinHash: the hash functions are permutations of the location keys, given
\* as the rank each one assigns to a key; a signature holds, per permutation,
\* the least rank over the set.
AggKeys == AggFiles \X {1}

MinHashPermutations ==
    << [k \in AggKeys |-> IF k[1] = "a.ts" THEN 1 ELSE 2],
       [k \in AggKeys |-> IF k[1] = "a.ts" THEN 2 ELSE 1] >>

MinOf(S) == CHOOSE x \in S : \A y \in S : x <= y

MinHashSignature(key_set) ==
    [p \in 1..Len(MinHashPermutations) |->
        MinOf({MinHashPermutations[p][k] : k \in key_set})]

\* MinHashIndex::insert, once per pattern: the index maps the pattern id to
\* the signature of its key set and knows nothing else of the pattern
MinHashIndexOf(grouped) ==
    [id \in DOMAIN grouped |-> MinHashSignature(LocationKeySet(grouped[id]))]

\* MinHashIndex::find_candidates: the pairs of ids that share a band (one row
\* per band)
MinHashFindCandidates(index) ==
    {pr \in (DOMAIN index) \X (DOMAIN index) :
        /\ IdBefore(pr[1], pr[2])
        /\ \E band \in 1..Len(MinHashPermutations) :
               index[pr[1]][band] = index[pr[2]][band]}

\* MinHashIndex::estimate_similarity: the share of equal signature entries
MinHashEstimateSimilarity(index, a, b) ==
    Frac(Cardinality({p \in 1..Len(MinHashPermutations) : index[a][p] = index[b][p]}),
         Len(MinHashPermutations))

\* detect_duplicates_minhash (pipeline.rs:135-163)
DetectDuplicatesMinhash(grouped, flag_threshold) ==
    LET index == MinHashIndexOf(grouped) IN
    {MergeCandidate(pr[1], pr[2], MinHashEstimateSimilarity(index, pr[1], pr[2])) :
        pr \in {c \in MinHashFindCandidates(index) :
                  FLe(flag_threshold, MinHashEstimateSimilarity(index, c[1], c[2]))}}

\* AggregationConfig: the fields detect_duplicates reads
AggregationConfigs ==
    [minhash_enabled : BOOLEAN, minhash_auto_threshold : {1, 50000},
     duplicate_flag_threshold : {Frac(85, 100)}]

\* detect_duplicates (pipeline.rs:118-132)
DetectDuplicates(config, grouped) ==
    LET n == Cardinality(DOMAIN grouped)
        use_minhash == config.minhash_enabled \/ n > config.minhash_auto_threshold
    IN IF use_minhash
       THEN DetectDuplicatesMinhash(grouped, config.duplicate_flag_threshold)
       ELSE FindDuplicates(grouped, config.duplicate_flag_threshold)

\* hierarchy::build_hierarchies: for an auto-merge candidate the locations of
\* the pattern with fewer locations (the second of the pair on a tie) are
\* folded into the other one, which is marked dirty
FoldLocations(parent, child) ==
    LET extra == {i \in 1..Len(child.locations) :
                     <<child.locations[i].file, child.locations[i].line>>
                         \notin LocationKeySet(parent)}
        order == AscendingSeq(extra)
    IN [parent EXCEPT
          !.locations = @ \o [k \in 1..Len(order) |-> child.locations[order[k]]],
          !.is_dirty = TRUE]

BuildHierarchies(grouped, candidates) ==
    [id \in DOMAIN grouped |->
        LET children == {c \in candidates :
                           /\ c.decision = "AutoMerge"
                           /\ \/ /\ c.pattern_a = id
                                 /\ Len(grouped[c.pattern_b].locations) <= Len(grouped[id].locations)
                              \/ /\ c.pattern_b = id
                                 /\ Len(grouped[c.pattern_a].locations) < Len(grouped[id].locations)}
        IN IF children = {} THEN grouped[id]
           ELSE LET c == CHOOSE x \in children : \A y \in children :
                             x = y \/ IdBefore(x.pattern_a, y.pattern_a)
                                   \/ (x.pattern_a = y.pattern_a /\ IdBefore(x.pattern_b, y.pattern_b))
                    other == IF c.pattern_a = id THEN c.pattern_b ELSE c.pattern_a
                IN FoldLocations(grouped[id], grouped[other])]

\* AggregationPipeline::run (pipeline.rs:35-60)
Run(config, matches) ==
    LET grouped == PatternGrouperGroup(matches)
        candidates == DetectDuplicates(config, grouped)
        merged == BuildHierarchies(grouped, candidates)
    IN [patterns |-> [id \in DOMAIN merged |-> Reconcile(merged[id])],
        merge_candidates |-> candidates]

\* the filter of run_incremental left out: every input match is re-aggregated
ChangedMatchesUnfiltered(matches, changed_files) == matches

\* changed_matches (pipeline.rs:70-74)
ChangedMatches(matches, changed_files) ==
    LET keep == AscendingSeq({i \in 1..Len(matches) : matches[i].file \in changed_files})
    IN [k \in 1..Len(keep) |-> matches[keep[k]]]

\* incremental::patterns_needing_reaggregation: the patterns with a location
\* in a changed file
PatternsNeedingReaggregation(existing, changed_files) ==
    {id \in DOMAIN existing :
        \E i \in 1..Len(existing[id].locations) :
            existing[id].locations[i].file \in changed_files}

\* incremental::remove_stale_locations: the locations of changed files dropped
RemoveStaleLocations(pattern, changed_files) ==
    LET keep == AscendingSeq({i \in 1..Len(pattern.locations) :
                                 pattern.locations[i].file \notin changed_files})
    IN [pattern EXCEPT !.locations = [k \in 1..Len(keep) |-> pattern.locations[keep[k]]],
                       !.is_dirty = TRUE]

\* AggregationPipeline::run_incremental (pipeline.rs:63-115)
RunIncremental(matches, existing_patterns, changed_files) ==
    LET changed_matches == ChangedMatches(matches, changed_files)
        affected_ids == PatternsNeedingReaggregation(existing_patterns, changed_files)
        cleaned == [id \in DOMAIN existing_patterns |->
                      IF id \in affected_ids
                      THEN RemoveStaleLocations(existing_patterns[id], changed_files)
                      ELSE existing_patterns[id]]
        new_grouped == PatternGrouperGroup(changed_matches)
        all_patterns == [id \in (DOMAIN cleaned) \cup (DOMAIN new_grouped) |->
                           IF id \in DOMAIN cleaned
                           THEN IF id \in DOMAIN new_grouped
                                THEN [cleaned[id] EXCEPT
                                        !.locations = @ \o new_grouped[id].locations,
                                        !.is_dirty = TRUE]
                                ELSE cleaned[id]
                           ELSE new_grouped[id]]
    IN [patterns |-> [id \in DOMAIN all_patterns |-> Reconcile(all_patterns[id])],
        merge_candidates |-> {}]

NoPatterns == [id \in {} |-> 0]

NoAggCall == [fn |-> "none", matches |-> <<>>, changed_files |-> {},
              before |-> NoPatterns, merge_candidates |-> {}, use_minhash |-> FALSE]

InitAggregate ==
    /\ aggPatterns = NoPatterns
    /\ aggCall = NoAggCall

\* AggregationPipeline::new(config).run(matches); the caller keeps the
\* patterns of the result
CallRun ==
    /\ UNCHANGED notAggregate
    /\ aggCall.fn = "none"
    /\ \E config \in AggregationConfigs, matches \in MatchSeqs :
          LET r == Run(config, matches) IN
          /\ aggPatterns' = r.patterns
          /\ aggCall' = [fn |-> "run", matches |-> matches, changed_files |-> {},
                         before |-> NoPatterns,
                         merge_candidates |-> r.merge_candidates,
                         use_minhash |-> config.minhash_enabled
                             \/ Cardinality(DOMAIN PatternGrouperGroup(matches))
                                    > config.minhash_auto_threshold]

\* run_incremental on the patterns of the earlier run
CallRunIncremental ==
    /\ UNCHANGED notAggregate
    /\ aggCall.fn = "run"
    /\ \E matches \in MatchSeqs, changed_files \in SUBSET AggFiles :
          LET r == RunIncremental(matches, aggPatterns, changed_files) IN
          /\ aggPatterns' = r.patterns
          /\ aggCall' = [fn |-> "run_incremental", matches |-> matches,
                         changed_files |-> changed_files,
                         before |-> aggPatterns,
                         merge_candidates |-> r.merge_candidates,
                         use_minhash |-> FALSE]

NextAggregate ==
    \/ CallRun
    \/ CallRunIncremental

Init == InitWriter /\ InitRuntime /\ InitTables /\ InitWalk /\ InitScan /\ InitParse /\ InitGraph /\ InitTraverse /\ InitScore /\ InitDiscover /\ InitPromote /\ InitOutlier /\ InitTaint /\ InitAggregate

SpecWriter == Init /\ [][NextWriter]_vars

SpecRuntime == Init /\ [][NextRuntime]_vars

SpecTables == Init /\ [][NextTables]_vars

SpecWalk == Init /\ [][NextWalk]_vars

SpecScan == Init /\ [][NextScan]_vars

SpecParse == Init /\ [][NextParse]_vars

SpecBuild == Init /\ [][NextBuild]_vars

SpecIncremental == Init /\ [][NextIncremental]_vars

SpecTraverse == Init /\ [][NextTraverse]_vars

SpecScore == Init /\ [][NextScore]_vars

SpecDiscover == Init /\ [][NextDiscover]_vars

SpecPromote == Init /\ [][NextPromote]_vars

SpecOutlier == Init /\ [][NextOutlier]_vars

SpecTaint == Init /\ [][NextTaint]_vars

SpecAggregate == Init /\ [][NextAggregate]_vars

(***************************************************************************)
(* Properties of the batch writer.                                         *)
(***************************************************************************)
\* the commands of the drain that failed: none of them is committed
Lost == IF writerResult = "Err" THEN exitBatch ELSE <<>>

\* C1: BatchWriter.send never silently drops a command: every data command
\* for which send returned Ok is executed and committed by the writer thread.
\* Stated of the thread that has returned Ok(stats), where no drain failed and
\* no error accounts for a missing command.
C1_NoSilentDrop ==
    (pcW = "done" /\ writerResult = "Ok") => acked \subseteq Range(db)

\* C2 as claimed: when the thread returns after Shutdown or after the senders
\* disconnected, every command it had received and buffered is committed, and
\* BatchWriter::shutdown has returned only if the thread has.
C2_DrainsOnExit ==
    /\ (pcW = "done" /\ exitOn \in {"Shutdown", "Disconnected"})
           => Range(recvd) \subseteq Range(db)
    /\ pcS = "returned" => pcW = "done"

\* C2 as amended: the thread that returns after Shutdown or after the senders
\* disconnected has drained its buffer; the buffered commands are committed
\* when that drain succeeded, and when it failed the thread returned the error
\* and none of them is committed.  BatchWriter::shutdown returns only after
\* the thread has, with the thread's result.
C2_DrainsOnExitUnlessFailed ==
    /\ (pcW = "done" /\ exitOn \in {"Shutdown", "Disconnected"})
           => /\ buffer = <<>>
              /\ recvd = db \o Lost
              /\ writerResult = "Ok" <=> Lost = <<>>
    /\ pcS = "returned" => pcW = "done" /\ shutdownResult = writerResult

\* a shutdown that returned Ok(stats) after a final drain of two commands
C2_Witness ==
    /\ pcS = "returned"
    /\ shutdownResult = "Ok"
    /\ exitOn = "Shutdown"
    /\ Len(exitBatch) = 2
    /\ Len(db) = 3

\* C3: the writer applies the data commands in the order in which they
\* arrived on the channel, within a transaction and across transactions: the
\* committed commands, in execution order, are a prefix of the arrival order.
C3_ArrivalOrder ==
    /\ IsPrefix(recvd, arrived)
    /\ IsPrefix(db, recvd)

\* three commands of two senders committed by two transactions, one of which
\* held two commands, the second sender's command having arrived first
C3_Witness ==
    /\ Len(db) = 3
    /\ stats.flushes = 2
    /\ db[1][1] = 2
    /\ db[2][1] = 1

\* C4: the buffer is drained as soon as BATCH_SIZE commands are buffered or
\* FLUSH_TIMEOUT has passed since the last drain: no command stays buffered
\* for longer than FLUSH_TIMEOUT (the oldest buffered command was buffered
\* after the last drain, so it has waited no longer than the time since that
\* drain), and the buffer never holds more than BATCH_SIZE commands.
C4_BatchingPolicy ==
    /\ buffer # <<>> => bufAge <= FLUSH_TIMEOUT
    /\ Len(buffer) <= BATCH_SIZE

\* the commands a drain made by this iteration of the loop holds: the buffer,
\* with the data command being received pushed onto it
DrainedBatch ==
    IF chan # <<>> /\ Head(chan).kind = "Data"
    THEN Append(buffer, Head(chan))
    ELSE buffer

\* this step is an iteration of the loop that drained a non-empty buffer
DrainStep ==
    /\ pcW = "recv"
    /\ buffer' = <<>>
    /\ \/ buffer # <<>>
       \/ Len(chan') < Len(chan) /\ Head(chan).kind = "Data"

\* C25: each drain executes all buffered commands inside one transaction:
\* either every command of the batch is committed, in one flush, or, when a
\* statement or the commit failed, the writer returns the error and none of
\* the batch's commands is persisted.
C25_DrainIsAtomic ==
    [][DrainStep =>
          \/ /\ db' = db \o Ids(DrainedBatch)
             /\ stats'.flushes = stats.flushes + 1
             /\ writerResult' # "Err"
             /\ \A i \in 1..Len(DrainedBatch) : DrainedBatch[i].ok
          \/ /\ db' = db
             /\ stats' = stats
             /\ writerResult' = "Err"
             /\ exitBatch' = Ids(DrainedBatch)]_vars

\* a drain of a batch of two commands that failed after another batch had
\* been committed
C25_Witness ==
    /\ writerResult = "Err"
    /\ Len(exitBatch) = 2
    /\ Len(db) = 1
    /\ stats.flushes = 1

\* C29: once a drain has failed the writer thread has terminated and commits
\* nothing further: the commit log never changes again, whatever was buffered
\* is discarded, a data command sent after the thread has exited gets an
\* error from send and never enters the channel, and BatchWriter::shutdown
\* returns the drain's error.
C29_FailedDrainIsFinal ==
    [][/\ writerResult' = "Err" =>
             /\ pcW' = "done"
             /\ buffer' = <<>>
             /\ Range(exitBatch') \cap Range(db') = {}
             /\ pcS' = "returned" => shutdownResult' = "Err"
       /\ writerResult = "Err" =>
             /\ db' = db
             /\ writerResult' = "Err"
             /\ chan' = chan
             /\ acked' = acked
             /\ sent' # sent => refused' # refused]_vars

\* a drain failed with a command still queued behind it; a command sent
\* afterwards was refused, and shutdown returned the error
C29_Witness ==
    /\ writerResult = "Err"
    /\ shutdownResult = "Err"
    /\ exitBatch # <<>>
    /\ refused # {}
    /\ \E i \in 1..Len(chan) : chan[i].kind = "Data"

(***************************************************************************)
(* Properties of the bridge runtime.                                       *)
(***************************************************************************)
\* C5: at most one initialize call installs the runtime and returns Ok; every
\* initialize call made once the runtime is installed returns an error
\* carrying ALREADY_INITIALIZED and leaves the installed runtime unchanged.
C5_InitializeOnce ==
    /\ okInits <= 1
    /\ (lastCall.fn = "drift_initialize" /\ lastCall.installed)
          => lastCall.result = "ALREADY_INITIALIZED"
    /\ firstInstalled # 0 => RUNTIME = firstInstalled

\* C6: every work function of the bridge that is called before a successful
\* initialize returns an error carrying RUNTIME_NOT_INITIALIZED.
C6_WorkNeedsRuntime ==
    (lastCall.fn \in WorkFunctions /\ ~lastCall.installed)
       => lastCall.result = "RUNTIME_NOT_INITIALIZED"

\* C7: after shutdown has returned Ok the store is checkpointed, and every
\* later call that needs the runtime returns RUNTIME_NOT_INITIALIZED until
\* initialize is called again.
C7_NothingAfterShutdown ==
    /\ shutDown => checkpoints > 0
    /\ (lastCall.afterShutdown /\ CallsGet(lastCall.fn))
          => lastCall.result = "RUNTIME_NOT_INITIALIZED"

\* the runtime as the callers see it: installed exactly when an initialize
\* call has returned Ok, and then the instance that call installed
RuntimeVisible(cell, oks, first) ==
    IF oks > 0 THEN cell # 0 /\ cell = first ELSE cell = 0

\* C30: the runtime state is monotone.  Before any initialize call has
\* returned Ok, get returns RUNTIME_NOT_INITIALIZED and is_initialized
\* returns false; once one has, is_initialized returns true and get returns
\* the instance that call installed, on every later call and whatever
\* initialize and shutdown calls come in between.
C30_RuntimeMonotone ==
    [][/\ RuntimeVisible(RUNTIME, okInits, firstInstalled)
       /\ RuntimeVisible(RUNTIME', okInits', firstInstalled')
       /\ RUNTIME # 0 => RUNTIME' = RUNTIME
       /\ okInits' >= okInits
       /\ (lastCall' # lastCall /\ lastCall'.fn = "drift_is_initialized")
             => (lastCall'.result = IF okInits > 0 THEN "true" ELSE "false")
       /\ (lastCall' # lastCall /\ CallsGet(lastCall'.fn))
             => (lastCall'.result =
                    IF okInits > 0 THEN "Ok" ELSE "RUNTIME_NOT_INITIALIZED")]_vars

\* the first instance is still the one get returns after a shutdown that
\* returned Ok and a second initialize call that built another instance
C30_Witness ==
    /\ okInits = 1
    /\ instances >= 2
    /\ RUNTIME = firstInstalled
    /\ CallsGet(lastCall.fn)
    /\ lastCall.afterShutdown
    /\ lastCall.result = "Ok"

(***************************************************************************)
(* Properties of the tables.                                               *)
(***************************************************************************)
\* how often a table holds a row with these columns
RowCount(stored, row) ==
    Cardinality({i \in 1..Len(stored) :
                    stored[i].pk = row.pk /\ stored[i].val = row.val})

SameRows(a, b) ==
    \A t \in TableNames : \A row \in Rows :
        RowCount(a[t], row) = RowCount(b[t], row)

\* C8: every batched multi-row insert is idempotent on the primary key: for
\* each table group, applying the same insert command twice leaves the table
\* with the same rows as applying it once.
C8_InsertIdempotent ==
    (pcT = "twice" /\ lastCmd.kind \in InsertKinds) => SameRows(tables, once)

(***************************************************************************)
(* Properties of the walker and of the scan bindings.                      *)
(***************************************************************************)
\* C9: if the caller sets the cancellation flag while the walk is in
\* progress, the workers stop at the next file they visit, and the walk
\* returns only the files that were found, or were being processed, when the
\* flag was set.
C9_WalkStopsOnCancel ==
    (pcWalk = "done" /\ midCancel) => Range(walkResult) \subseteq atCancel

\* C10: a driftCancelScan() call made after the scan was requested and before
\* it finished makes the scan return a partial result.
C10_CancelGivesPartial ==
    \A t \in Tasks :
        (taskPc[t] = "done" /\ cancelRequested[t]) => taskStatus[t] = "partial"

(***************************************************************************)
(* Properties of the parser manager.                                       *)
(***************************************************************************)
\* C11 (as stated): a parse of bytes whose fingerprint is cached returns,
\* without invoking the adapter, the record the first successful parse of
\* those bytes returned; a parse whose fingerprint is not cached invokes the
\* adapter, stores its result under the fingerprint and returns it.
C11_HitEqualsFirstParse ==
    (lastParse.tag # "none" /\ ~invalidated) =>
        /\ lastParse.wasCached =>
              /\ ~lastParse.adapter
              /\ lastParse.tag = "Ok"
              /\ lastParse.rec = firstRecord[lastParse.source]
        /\ ~lastParse.wasCached =>
              /\ lastParse.adapter
              /\ lastParse.tag = "Ok" =>
                    lastParse.rec = <<ParseWithLanguage(lastParse.source, lastParse.path,
                                                        lastParse.rec[1].language)>>

\* what the last call to return has returned: on an unsupported path
\* UnsupportedLanguage with no adapter run; on a hit a record the adapter
\* produced earlier for the fingerprint, with no adapter run; on a miss the
\* record of the adapter run of this call; and every stored record is one
\* the adapter produced for its fingerprint
HitSkipsAdapter ==
    /\ \A h \in Fingerprints : cache[h] # <<>> => cache[h][1] \in produced[h]
    /\ lastParse.tag # "none" =>
          LET h == HashContent(lastParse.source)
              detected == DetectLanguage(lastParse.path)
              looks == lastParse.fn = "parse_with_language" \/ detected # <<>>
          IN  /\ (looks /\ lastParse.wasCached) =>
                    /\ ~lastParse.adapter
                    /\ lastParse.tag = "Ok"
                    /\ lastParse.rec[1] \in produced[h]
              /\ (looks /\ ~lastParse.wasCached) =>
                    /\ lastParse.adapter
                    /\ lastParse.tag = "Ok" =>
                          /\ lastParse.rec[1] \in produced[h]
                          /\ lastParse.rec[1].file = lastParse.path
                          /\ lastParse.rec[1].structure = lastParse.source
                          /\ lastParse.fn = "parse" =>
                                lastParse.rec[1].language = detected[1]
              /\ ~looks =>
                    /\ ~lastParse.adapter
                    /\ lastParse.tag = "UnsupportedLanguage"

\* what one step of a call does to the cache: a lookup that returns Ok
\* returns the record stored at that moment and stores nothing; a caller
\* whose adapter succeeded stores its own record under the fingerprint and
\* returns it; a caller whose adapter failed returns the error and stores
\* nothing
MissStoresOwnRecord ==
    /\ (parseCalls' = parseCalls + 1 /\ inFlight' = inFlight /\ lastParse'.tag = "Ok") =>
          /\ cache[HashContent(lastParse'.source)] # <<>>
          /\ lastParse'.rec = cache[HashContent(lastParse'.source)]
          /\ cache' = cache
    /\ \A t \in ParseCallers :
          /\ (inFlight[t].result # <<>> /\ inFlight'[t] = NoPending) =>
                /\ cache'[HashContent(inFlight[t].source)] = inFlight[t].result
                /\ lastParse'.rec = inFlight[t].result
                /\ lastParse'.adapter
          /\ (inFlight[t] # NoPending /\ inFlight[t].result = <<>>
                  /\ inFlight'[t] = NoPending) =>
                /\ cache' = cache
                /\ lastParse'.tag = "TreeSitterError"

\* C11 (amended): parse on a path with an unsupported extension gives
\* UnsupportedLanguage without a lookup; every other call (parse on a
\* supported path, parse_with_language on any path) whose fingerprint is
\* cached when it looks returns, without invoking the adapter, the record
\* stored at that moment, which an earlier adapter run produced for that
\* fingerprint; a call whose fingerprint is not cached when it looks
\* invokes the adapter and, when the adapter succeeds, stores the record of
\* its own run, attributed to the path and the language of this call, over
\* whatever is stored by then, and returns it; when the adapter fails
\* nothing is stored.
C11_HitSkipsAdapter == []HitSkipsAdapter /\ [][MissStoresOwnRecord]_vars

\* C11 witness: two callers missed on the same bytes under different paths
\* and stored their records in the order opposite to the one their adapters
\* finished in; a later parse of the bytes hit the cache and returned the
\* stored record, which is neither the last record the adapter produced nor
\* attributed to the path of this call.
C11_Witness ==
    /\ lastParse.fn = "parse"
    /\ lastParse.tag = "Ok"
    /\ lastParse.wasCached
    /\ ~lastParse.adapter
    /\ lastParse.rec # <<>>
    /\ lastParse.rec = cache[HashContent(lastParse.source)]
    /\ lastParse.rec # lastComputed[HashContent(lastParse.source)]
    /\ lastParse.rec[1].file # lastParse.path
    /\ parseCalls >= 3

(***************************************************************************)
(* Properties of the call graph.                                           *)
(***************************************************************************)
\* C12: a successful parse returns a record attributed to the path it was
\* called with, so that the call graph built from the record holds a node
\* `path::name` for every function of the bytes, also when the same bytes
\* were parsed before under another path.
C12_NodePerPathAndName ==
    lastParse.tag = "Ok" =>
        /\ lastParse.rec[1].file = lastParse.path
        /\ \A policy \in NodePolicies :
              LET g == Build(<<RecordOf(lastParse.rec[1])>>, policy)
                  fns == ExtractStructure(lastParse.source)
              IN  \A j \in 1..Len(fns) :
                      \E i \in g.live :
                          Key(g.nodes[i].file, g.nodes[i].name)
                              = Key(lastParse.path, fns[j].name)

\* the order of the strategies as the specification lists them
ListedOrder == <<"SameFile", "MethodCall", "ImportBased", "ExportBased", "Fuzzy">>

\* C13: for every call site inside a function, resolve_call returns the
\* result of the first strategy, in the order SameFile, MethodCall,
\* ImportBased, ExportBased, Fuzzy, that succeeds, and None when none does;
\* when `caller_file::callee_name` is a function of the records the result is
\* that key with SameFile whatever the imports and the receiver are, and
\* every edge of that call site ends at that node.
C13_FirstSuccessWins ==
    LET entries == CallEntries(lastResults) IN
    \A n \in 1..Len(entries) :
        LET cs == entries[n].call_site
            pr == lastResults[entries[n].record]
            try(k) == Strategy(ListedOrder[k], cs, pr.file, pr.imports, lastResults)
            r == ResolveCall(cs, pr.file, pr.imports, lastResults)
            sameFile == \E j \in 1..Len(pr.functions) : pr.functions[j].name = cs.callee_name
        IN  /\ (r = <<>>) <=> (\A k \in 1..5 : try(k) = <<>>)
            /\ r # <<>> =>
                  \E k \in 1..5 :
                      /\ r[1].resolution = ListedOrder[k]
                      /\ try(k) = <<r[1].key>>
                      /\ \A j \in 1..(k - 1) : try(j) = <<>>
            /\ sameFile =>
                  /\ r = <<[key |-> Key(pr.file, cs.callee_name), resolution |-> "SameFile"]>>
                  /\ \A e \in 1..Len(graph.edges) :
                        (graph.edges[e].call_site = cs /\ graph.edges[e].caller_file = pr.file)
                            => /\ graph.edges[e].resolution = "SameFile"
                               /\ Key(graph.nodes[graph.edges[e].to].file,
                                      graph.nodes[graph.edges[e].to].name)
                                     = Key(pr.file, cs.callee_name)

\* C13 witness: a call with a receiver and a matching import was resolved to
\* the function of its own file although the other file holds a function of
\* the same name that a later strategy gives.
C13_Witness ==
    \E e \in 1..Len(graph.edges) :
        LET ed == graph.edges[e]
            pr == lastResults[1]
        IN  /\ ed.resolution = "SameFile"
            /\ ed.call_site.receiver # <<>>
            /\ graph.nodes[ed.to].file = "a.py"
            /\ ResolveMethodCall(ed.call_site, lastResults) = <<Key("b.py", ed.call_site.callee_name)>>
            /\ ResolveImportBased(ed.call_site, pr.imports, lastResults) # <<>>

\* C14: for every edge (u -> v) of a built graph, u and v are nodes of the
\* graph and the call-site line lies within u's [start line, end line].
C14_EdgeInsideCaller ==
    \A e \in 1..Len(graph.edges) :
        LET ed == graph.edges[e] IN
        /\ ed.from \in graph.live
        /\ ed.to \in graph.live
        /\ graph.nodes[ed.from].line <= ed.call_site_line
        /\ ed.call_site_line <= graph.nodes[ed.from].end_line

\* C15: after any sequence of full_build and update calls the held graph
\* (nodes, edges, entry-point flags) is the graph a fresh full build gives
\* for the records passed to the last call.
C15_UpdateEqualsFullBuild ==
    graphCalls > 0 => graph = Build(lastResults, nodePolicy)

\* C15 witness: an update that followed another call left a graph with
\* edges, built from records of both files.
C15_Witness ==
    /\ lastOp = "update"
    /\ graphCalls >= 2
    /\ Len(lastResults) = 2
    /\ Len(graph.edges) >= 2
    /\ \E i \in graph.live : graph.nodes[i].is_entry_point

\* C17: the edges are added caller by caller in the order Phase A produced
\* the callers' nodes, and the edges of one caller are added in ascending
\* call-site line order.
C17_PhaseBOrder ==
    \A i, j \in 1..Len(graph.edges) :
        i < j =>
            /\ graph.edges[i].from <= graph.edges[j].from
            /\ graph.edges[i].from = graph.edges[j].from
                  => graph.edges[i].call_site_line <= graph.edges[j].call_site_line

(***************************************************************************)
(* Properties of the traversal.                                            *)
(***************************************************************************)
RECURSIVE Within(_, _, _, _)
\* the nodes joined to start by a path of at most k edges in the direction
Within(edges, start, direction, k) ==
    IF k = 0 THEN {start}
    ELSE LET near == Within(edges, start, direction, k - 1)
         IN  near \cup {n \in BfsNodes :
                          \E m \in near :
                              IF direction = "Outgoing" THEN <<m, n>> \in edges
                              ELSE <<n, m>> \in edges}

\* C16: bfs_forward (bfs_inverse) returns exactly the nodes other than start
\* that a path of at most max_depth outgoing (incoming) edges reaches from
\* start, of any length when max_depth is None, each once; start is never
\* in the result.
C16_BfsExact ==
    bfsCall.direction # "none" =>
        LET k == IF bfsCall.max_depth = <<>> THEN NBfsNodes ELSE bfsCall.max_depth[1]
        IN  /\ Range(bfsResult)
                  = Within(Range(bfsCall.edges), bfsCall.start, bfsCall.direction, k) \ {bfsCall.start}
            /\ Len(bfsResult) = Cardinality(Range(bfsResult))
            /\ bfsCall.start \notin Range(bfsResult)

\* C16 witness: an inverse traversal from a node with a self-loop that lies
\* on a cycle, cut by max_depth before it reached every node that reaches
\* the start.
C16_Witness ==
    /\ bfsCall.direction = "Incoming"
    /\ bfsCall.max_depth = <<1>>
    /\ <<bfsCall.start, bfsCall.start>> \in Range(bfsCall.edges)
    /\ Len(bfsResult) = 1
    /\ Cardinality(Within(Range(bfsCall.edges), bfsCall.start, "Incoming", NBfsNodes)) = NBfsNodes
    /\ bfsCall.start \in Within(Range(bfsCall.edges), bfsResult[1], "Incoming", NBfsNodes - 1)

\* C18: every confidence score returned by score, score_batch and
\* score_with_momentum, decayed scores included, has alpha >= 1 and beta >= 1.
C18_AlphaBetaAtLeastOne ==
    \A i \in DOMAIN scoreResult :
        /\ FLe(One, scoreResult[i].alpha)
        /\ FLe(One, scoreResult[i].beta)

\* The occurrence share of the pattern at position k within its category
\* group, and the patterns a convention can be compared with.
ShareOf(patterns, k) ==
    Frac(patterns[k].location_count,
         SumLocations(patterns, CategoryGroup(patterns, patterns[k].category)))

HasPeerWithin(patterns, k, threshold) ==
    \E o \in CategoryGroup(patterns, patterns[k].category) :
        /\ o # k
        /\ LET diff == FSub(ShareOf(patterns, k), ShareOf(patterns, o))
           IN FLe(FMax(diff, FNeg(diff)), threshold)

CategoryBounds(spread, contested) ==
    \A i \in DOMAIN conventions :
        LET patterns == discoverCall.patterns
            k == origin[i]
        IN /\ conventions[i].category = "Universal" =>
                /\ FLe(spread, SpreadRatio(patterns[k], discoverCall.total_files))
                /\ conventions[i].confidence_score.tier = "Established"
           /\ conventions[i].category = "Contested" =>
                HasPeerWithin(patterns, k, contested)

\* C19: for every convention returned by discover, Universal implies spread
\* ratio >= 0.80 and tier Established, and Contested implies that another
\* pattern of the same category group has a share within 0.15 of its own.
C19_CategoryBounds == CategoryBounds(Frac(80, 100), Frac(15, 100))

\* C19 as the code has it: the two bounds are the thresholds of the
\* discoverer's configuration, 0.80 and 0.15 by default.
C19_CategoryBoundsOfConfig ==
    discoverCall.op = "discover" =>
        CategoryBounds(discoverCall.config.universal_spread_threshold,
                       discoverCall.config.contested_threshold)

C19_Witness ==
    /\ discoverCall.op = "discover"
    /\ discoverCall.config = DefaultLearningConfig
    /\ \E i \in DOMAIN conventions : conventions[i].category = "Universal"
    /\ \E i \in DOMAIN conventions : conventions[i].category = "Contested"

\* Rank of a confidence tier, Established highest.
TierRank(tier) ==
    CASE tier = "Established" -> 3
      [] tier = "Emerging" -> 2
      [] tier = "Tentative" -> 1
      [] tier = "Uncertain" -> 0

\* C20: conventions enter as Discovered; a promote_batch call changes a
\* convention only from Discovered to Approved, and only when its tier is at
\* least the configured minimum and its posterior mean is >= 0.85; Approved,
\* Rejected and Expired conventions are left as they are; the count returned
\* is the number of conventions whose status changed in the call.
C20_PromotionLifecycle ==
    /\ promoteCall.op = "discover" =>
          \A i \in DOMAIN store : store[i].promotion_status = "Discovered"
    /\ promoteCall.op = "promote_batch" =>
          LET before == promoteCall.before
              changed == {i \in DOMAIN before : store[i] # before[i]}
          IN /\ DOMAIN store = DOMAIN before
             /\ \A i \in changed :
                   /\ before[i].promotion_status = "Discovered"
                   /\ store[i] = [before[i] EXCEPT !.promotion_status = "Approved"]
                   /\ TierRank(before[i].confidence_score.tier)
                         >= TierRank(promoteCall.config.min_tier)
                   /\ FLe(Frac(85, 100), before[i].confidence_score.posterior_mean)
             /\ \A i \in DOMAIN before :
                   before[i].promotion_status \in {"Approved", "Rejected", "Expired"}
                      => store[i] = before[i]
             /\ promoteCall.returned = Cardinality(changed)

\* A second promote_batch call that promotes one convention and leaves alone
\* a Rejected or Expired one whose score would qualify.
C20_Witness ==
    /\ promoteCall.op = "promote_batch"
    /\ promoteCalls = 2
    /\ promoteCall.returned = 1
    /\ \E i \in DOMAIN store :
          /\ promoteCall.before[i].promotion_status \in {"Rejected", "Expired"}
          /\ CheckPromotionAnyStatus(promoteCall.before[i], promoteCall.config)

\* C21: a convention is promoted from Discovered to Approved only if its
\* pattern is spread over at least PromotionConfig.min_files files.
C21_PromotionNeedsMinFiles ==
    promoteCall.op = "promote_batch" =>
        \A i \in DOMAIN store :
            (/\ promoteCall.before[i].promotion_status = "Discovered"
             /\ store[i].promotion_status = "Approved")
            => \E k \in DOMAIN sourcePatterns :
                  /\ sourcePatterns[k].pattern_id = store[i].pattern_id
                  /\ sourcePatterns[k].file_spread >= promoteCall.config.min_files

\* C22: select_primary_method(n) is z-score for n >= 30, generalized ESD for
\* 25 <= n < 30, Grubbs for 10 <= n < 25 and rule-based for n < 10.
C22_MethodBySampleSize ==
    outlierCall.op = "select_primary_method" =>
        LET n == outlierCall.n
        IN /\ n >= 30 => outlierResult = <<"ZScore">>
           /\ (25 <= n /\ n < 30) => outlierResult = <<"GeneralizedEsd">>
           /\ (10 <= n /\ n < 25) => outlierResult = <<"Grubbs">>
           /\ n < 10 => outlierResult = <<"RuleBased">>

C22_Witness ==
    /\ outlierCall.op = "select_primary_method"
    /\ outlierCall.n = 29
    /\ outlierResult = <<"GeneralizedEsd">>

\* C23: for every input of the default detector, every index whose value is
\* <= 0 is reported as an outlier with significance High, whatever the
\* statistical stages report for that index.
C23_NonPositiveIsHigh ==
    outlierCall.op = "detect" =>
        \A k \in DOMAIN outlierCall.values :
            outlierCall.values[k] <= 0 =>
                \E r \in DOMAIN outlierResult :
                    /\ outlierResult[r].index = k - 1
                    /\ outlierResult[r].is_outlier
                    /\ outlierResult[r].significance = "High"

\* Positions of the call sites inside the analyzed function.
InRange(j) ==
    /\ j \in DOMAIN taintCall.call_sites
    /\ taintCall.call_sites[j].line >= taintCall.func.line
    /\ taintCall.call_sites[j].line <= taintCall.func.end_line

\* Call j is written inside the argument list of call k.
InArgsOf(j, k) ==
    /\ k < j
    /\ \A m \in (k + 1)..j : taintCall.call_sites[m].in_args

\* Call j is a sanitizer call that protects against sink_type.
ProtectsAgainst(j, sink_type) ==
    /\ InRange(j)
    /\ MatchSanitizer(FullName(taintCall.call_sites[j])) # <<>>
    /\ sink_type \in Range(MatchSanitizer(FullName(taintCall.call_sites[j]))[1].protects_against)

\* C24: a flow's is_sanitized flag is true exactly when a sanitizer call
\* that protects against the sink's type was applied in the same function
\* before the sink call, a sanitizer wrapping the value inside the sink
\* call's own arguments included.
C24_SanitizedIffSanitizerApplied ==
    taintCall.op = "analyze_function" =>
        \A i \in DOMAIN taintFlows :
            taintFlows[i].is_sanitized <=>
                \E j \in DOMAIN taintCall.call_sites :
                    /\ ProtectsAgainst(j, taintFlows[i].sink.sink_type)
                    /\ \/ j < taintFlows[i].call_index
                       \/ InArgsOf(j, taintFlows[i].call_index)

\* The seeds of the analyzed function: parameters and calls in its range
\* that match a source pattern.
HasSeed ==
    \/ \E i \in DOMAIN taintCall.func.parameters :
          MatchSource(Letters(taintCall.func.parameters[i])) # <<>>
    \/ \E j \in DOMAIN taintCall.call_sites :
          InRange(j) /\ MatchSource(FullName(taintCall.call_sites[j])) # <<>>

SinkCalls ==
    {j \in DOMAIN taintCall.call_sites :
        /\ InRange(j)
        /\ MatchSink(FullName(taintCall.call_sites[j])) # <<>>
        /\ MatchSanitizer(FullName(taintCall.call_sites[j])) = <<>>}

\* C26: a function without a seed yields no flow; a function with a seed
\* yields exactly one flow for each sink-matching call site in its line
\* range that does not match a sanitizer pattern.
C26_OneFlowPerSinkCall ==
    taintCall.op = "analyze_function" =>
        IF HasSeed
        THEN /\ Len(taintFlows) = Cardinality(SinkCalls)
             /\ {taintFlows[i].call_index : i \in DOMAIN taintFlows} = SinkCalls
        ELSE taintFlows = <<>>

C26_Witness ==
    /\ taintCall.op = "analyze_function"
    /\ HasSeed
    /\ Len(taintFlows) = 2
    /\ Len(taintCall.call_sites) = 3
    /\ \E j \in DOMAIN taintCall.call_sites :
          MatchSanitizer(FullName(taintCall.call_sites[j])) # <<>>

(***************************************************************************)
(* Properties of the aggregation pipeline.                                 *)
(***************************************************************************)
\* the patterns the last run grouped, before any merge
GroupedOfRun == PatternGrouperGroup(aggCall.matches)

\* C27: every merge candidate of near-duplicate detection, on the exact path
\* and on the MinHash path, names two distinct aggregated patterns of the
\* run, and the two belong to the same category.
C27_CandidatesWithinCategory ==
    aggCall.fn = "run" =>
        \A c \in aggCall.merge_candidates :
            /\ c.pattern_a # c.pattern_b
            /\ c.pattern_a \in DOMAIN GroupedOfRun
            /\ c.pattern_b \in DOMAIN GroupedOfRun
            /\ GroupedOfRun[c.pattern_a].category = GroupedOfRun[c.pattern_b].category

\* the locations among `locs` that lie in a file of `files`
LocationsIn(locs, files) == {l \in Range(locs) : l.file \in files}

\* C28: after run_incremental every pattern that existed before holds its
\* previous locations from files outside changed_files and the fresh matches
\* of its pattern id from files in changed_files, and nothing else; matches
\* from unchanged files are ignored.
C28_IncrementalTouchesChangedOnly ==
    aggCall.fn = "run_incremental" =>
        \A id \in DOMAIN aggCall.before :
            /\ id \in DOMAIN aggPatterns
            /\ LocationsIn(aggPatterns[id].locations, AggFiles \ aggCall.changed_files)
                 = LocationsIn(aggCall.before[id].locations, AggFiles \ aggCall.changed_files)
            /\ LocationsIn(aggPatterns[id].locations, aggCall.changed_files)
                 = {LocationOf(aggCall.matches[i]) : i \in
                       {j \in 1..Len(aggCall.matches) :
                           /\ aggCall.matches[j].pattern_id = id
                           /\ aggCall.matches[j].file \in aggCall.changed_files}}
            /\ aggPatterns[id].location_count = Len(aggPatterns[id].locations)
            /\ Cardinality(Range(aggPatterns[id].locations)) = Len(aggPatterns[id].locations)

\* a pattern with locations in both files goes through run_incremental with
\* one file changed: the location of the changed file is replaced by nothing,
\* the other one is kept, and an input match of the pattern from the
\* unchanged file is ignored
C28_Witness ==
    /\ aggCall.fn = "run_incremental"
    /\ aggCall.changed_files = {"a.ts"}
    /\ "sql_concat" \in DOMAIN aggCall.before
    /\ Len(aggCall.before["sql_concat"].locations) = 2
    /\ Len(aggPatterns["sql_concat"].locations) = 1
    /\ \E i \in 1..Len(aggCall.matches) :
          /\ aggCall.matches[i].pattern_id = "sql_concat"
          /\ aggCall.matches[i].file = "b.ts"

====
